---- MODULE Spec2Model ----
(***************************************************************************)
(* A model of the ingestion and graph core of the RAG platform:            *)
(*   - TextSink.process_document with Chunker and ChunkManifest            *)
(*     (src/uni_rag/text_sink.py),                                         *)
(*   - GraphSink._store_relations / _handle_edge_conflicts                 *)
(*     (src/uni_rag/graph_sink.py),                                        *)
(*   - MCPHost.invoke_tool and MCPIngestionWorker.run_ingestion            *)
(*     (src/uni_rag/mcp/host.py, src/uni_rag/ingestion_stream.py),         *)
(*   - StdioTransport (src/uni_rag/mcp/transports.py),                     *)
(*   - GroundedGenerator (src/uni_rag/grounding.py), Reranker              *)
(*     (src/uni_rag/reranker.py), LangGraphOrchestrator                    *)
(*     (src/uni_rag/langgraph_orchestrator.py), DocumentNormalizer         *)
(*     (src/uni_rag/normalizer.py),                                        *)
(*   - batch ingest (src/uni_rag/web_ingestion.py, docling_ingestion.py,   *)
(*     unified_ingestion.py) and InMemoryQueueClient                       *)
(*     (src/uni_rag/ingestion_stream.py).                                  *)
(* The vector store, the text index and the graph store are collaborators  *)
(* injected into the sinks; they are modelled by their storage contract:   *)
(* writes are keyed by chunk_id / edge_id with upsert semantics.           *)
(***************************************************************************)
EXTENDS Integers, Sequences, FiniteSets, TLC

VARIABLES
    now,            \* the wall clock read by datetime.now()
    \* ---- TextSink
    chunker_cfg,    \* Chunker.chunk_size / Chunker.chunk_overlap
    vector_store,   \* chunk ids held by the vector store
    text_index,     \* chunk ids held by the text index
    manifest_log,   \* doc_id -> manifest last handed to _store_manifest
    text_runs,      \* the last two process_document runs, older first
    text_count,     \* how many runs there were
    \* ---- GraphSink
    edges,          \* edge_id -> stored edge properties (or NoEdge)
    gtask,          \* per task: position inside _store_relations
    ground,         \* the concurrent round: store at its start, inputs
    glast,          \* the last completed sequential insert
    gcount,         \* how many inserts were started
    \* ---- MCPHost / MCPIngestionWorker
    host_cfg,       \* MCPHost.config["tenants"]
    transport_log,  \* requests that reached server.invoke / server.subscribe
    host_last,      \* outcome of the last direct host call
    worker,         \* the run_ingestion call in progress
    queues,         \* InMemoryQueueClient.queues: topic -> messages
    \* ---- HybridRetriever
    rrf,            \* the last _reciprocal_rank_fusion call: inputs and output
    \* ---- MCPIngestionWorker, continued
    checkpoints,    \* MCPIngestionWorker.checkpoints: tool_id -> cursor
    stream,         \* the start_streaming_ingestion call and its checkpoint
    \* ---- MCPHost, continued
    audit,          \* audit ids drawn so far and the audit records of the
                    \* last direct host call
    \* ---- StdioTransport
    tp,             \* the transport object, its requests and its close() call
    \* ---- GroundedGenerator
    gen,            \* one generate_with_citations call: inputs and result
    \* ---- GroundedGenerator.generate_stream
    gs,             \* one generate_stream run: inputs, frames delivered, exit
    \* ---- CrossEncoderReranker
    rr,             \* the reranker's cache and its last rerank call
    \* ---- LangGraphOrchestrator
    orch,           \* one query in the orchestrator: rerank and generate nodes
    \* ---- Normalizer
    norm,           \* a document, its normal form and the normal form of that
    \* ---- Chunker.chunk_document
    ck,             \* one chunk_document call: content, configuration, chunks
    \* ---- WebIngestion / DoclingIngestion / UnifiedIngestion
    batch,          \* one batch ingest: entry point, semaphore, tasks
    \* ---- the queue client
    qc              \* InMemoryQueueClient.consumers and the tasks produce() created

vars == <<now, chunker_cfg, vector_store, text_index, manifest_log,
          text_runs, text_count, edges, gtask, ground, glast, gcount, host_cfg, transport_log,
          host_last, worker, queues, rrf, checkpoints, stream, audit, tp, gen, gs, rr, orch, norm, ck, batch, qc>>

textVars == <<chunker_cfg, vector_store, text_index, manifest_log, text_runs, text_count>>
graphVars == <<edges, gtask, ground, glast, gcount>>
hostVars == <<host_cfg, transport_log, host_last, worker, queues>>
\* the subsystems beside the sinks, the host and the worker
midVars == <<rrf, checkpoints, stream, audit, tp, gen>>
\* generate_stream, the reranker, the orchestrator, the normalizer, the
\* chunker call, batch ingest and the queue client
lateVars == <<gs, rr, orch, norm, ck, batch, qc>>
extVars == <<midVars, lateVars>>
\* extVars without the checkpoints
noCheckpointVars == <<rrf, stream, audit, tp, gen, lateVars>>
\* extVars without the audit log
noAuditVars == <<rrf, checkpoints, stream, tp, gen, lateVars>>
coreVars == <<now, textVars, graphVars, hostVars>>

\* Python's None and a present value: an optional is a set of at most one value
None == {}
Some(x) == {x}
The(o) == CHOOSE x \in o : TRUE

(***************************************************************************)
(* Bounds of the model.                                                    *)
(***************************************************************************)
MaxNow == 2
MaxParas == 2
MaxParaLen == 1
MaxRuns == 3
MaxChunkSize == 2
MaxOverlap == 1
MaxTs == 3
MaxConf == 3
MaxInserts == 4
MaxRounds == 1
MaxPrior == 1
MaxRetries == 2
MaxWorkerRuns == 2
MaxItems == 1

(***************************************************************************)
(* The clock.                                                              *)
(***************************************************************************)
\* time passes between two reads of datetime.now()
Tick ==
    /\ now < MaxNow
    /\ now' = now + 1

(***************************************************************************)
(* Chunker (text_sink.py).  A paragraph is a sequence of words; a content  *)
(* is the sequence of paragraphs content.split("\n\n") yields (never       *)
(* empty: "" splits to [""]).  A chunk text is a sequence of words and     *)
(* paragraph breaks PB ("\n\n").                                           *)
(***************************************************************************)
Words == {"a", "b"}
PB == "\n\n"
DocIds == {"d1"}

SeqsUpTo(S, n) == UNION {[1..k -> S] : k \in 0..n}
Paragraphs == SeqsUpTo(Words, MaxParaLen)
Contents == SeqsUpTo(Paragraphs, MaxParas) \ {<<>>}
\* the contents of the documents handed to the text sink: no blank paragraph
DocContents == {c \in Contents : \A k \in DOMAIN c : c[k] # <<>>}

\* text.split(): the words of a text, paragraph breaks dropped
RECURSIVE Split(_)
Split(text) ==
    IF text = <<>> THEN <<>>
    ELSE IF Head(text) = PB THEN Split(Tail(text))
         ELSE <<Head(text)>> \o Split(Tail(text))

\* words[-n:] -- Python's slice: -0 is 0, so n = 0 keeps the whole list
LastWords(words, n) ==
    IF n = 0 \/ n >= Len(words) THEN words
    ELSE SubSeq(words, Len(words) - n + 1, Len(words))

\* hashlib.md5(f"{doc_id}:{text}"), taken as injective in (doc_id, text)
ChunkId(doc_id, text) == <<doc_id, text>>

RECURSIVE ChunkLoop(_, _, _, _, _, _)
ChunkLoop(paras, k, current_chunk, current_tokens, chunks, cfg) ==
    IF k > Len(paras)
    THEN IF current_chunk # <<>> THEN Append(chunks, current_chunk) ELSE chunks
    ELSE LET paragraph == paras[k]
             paragraph_tokens == Len(Split(paragraph))
         IN IF current_tokens + paragraph_tokens > cfg.chunk_size /\ current_chunk # <<>>
            THEN LET overlap_words == LastWords(Split(current_chunk), cfg.chunk_overlap)
                 IN ChunkLoop(paras, k + 1,
                              overlap_words \o <<PB>> \o paragraph,
                              Len(overlap_words) + paragraph_tokens,
                              Append(chunks, current_chunk), cfg)
            ELSE ChunkLoop(paras, k + 1,
                           IF current_chunk # <<>>
                           THEN current_chunk \o <<PB>> \o paragraph
                           ELSE paragraph,
                           current_tokens + paragraph_tokens, chunks, cfg)

\* Chunker.chunk_document: the chunk texts, in order
ChunkDocument(content, cfg) == ChunkLoop(content, 1, <<>>, 0, <<>>, cfg)

\* the chunk ids of a document's chunks, in order (Chunker._create_chunk)
ChunkIdsOf(doc_id, content, cfg) ==
    LET texts == ChunkDocument(content, cfg)
    IN [i \in 1..Len(texts) |-> ChunkId(doc_id, texts[i])]

SeqRange(s) == {s[i] : i \in 1..Len(s)}

(***************************************************************************)
(* ChunkManifest and TextSink (text_sink.py).                              *)
(***************************************************************************)
\* document["checksum"]: md5 over source_id, content, metadata, ts_source,
\* taken as injective in the content (the other fields are held fixed)
Checksum(content) == <<"md5", content>>

\* ChunkManifest.create_manifest
CreateManifest(doc_id, checksum, ids, t) ==
    [doc_id |-> doc_id, checksum |-> checksum, chunk_count |-> Len(ids),
     chunk_ids |-> ids, ts_created |-> Some(t), ts_updated |-> None]

\* ChunkManifest.update_manifest: a copy of the old manifest with the chunk
\* fields and ts_updated replaced (the checksum is not refreshed)
UpdateManifest(old_manifest, ids, t) ==
    [old_manifest EXCEPT !.chunk_count = Len(ids), !.chunk_ids = ids,
                         !.ts_updated = Some(t)]

\* TextSink._get_manifest: "For now, just return None"
GetManifest(doc_id) == None

\* store contract: upsert and delete keyed by chunk_id
StoreUpsert(store, ids) == store \cup ids
StoreDelete(store, ids) == store \ ids

\* the ways a run ends: a return, or the exception of one awaited store call
\* (an embedding failure, before any write, leaves everything as it was)
Outcomes == {"ok", "vector_upsert_failed", "text_upsert_failed"}

LastTwo(s) == IF Len(s) <= 2 THEN s ELSE SubSeq(s, Len(s) - 1, Len(s))

ChunksOfDoc(store, doc_id) == {c \in store : c[1] = doc_id}

\* TextSink.process_document, lines 227-265, as one run with its outcome
ProcessDocument ==
    /\ text_count < MaxRuns
    /\ text_count' = text_count + 1
    /\ \E doc_id \in DocIds, content \in DocContents, outcome \in Outcomes :
         LET existing_manifest == GetManifest(doc_id)
             ids == ChunkIdsOf(doc_id, content, chunker_cfg)
             new_chunk_ids == SeqRange(ids)
             to_delete == IF existing_manifest # None
                          THEN SeqRange(The(existing_manifest).chunk_ids) \ new_chunk_ids
                          ELSE {}
             manifest == IF existing_manifest # None
                         THEN UpdateManifest(The(existing_manifest), ids, now)
                         ELSE CreateManifest(doc_id, Checksum(content), ids, now)
             vs_deleted == StoreDelete(vector_store, to_delete)
             ti_deleted == StoreDelete(text_index, to_delete)
             vs_written == outcome # "vector_upsert_failed"
         IN \E partial \in SUBSET new_chunk_ids :
              /\ outcome = "text_upsert_failed" => partial # new_chunk_ids
              /\ outcome # "text_upsert_failed" => partial = {}
              /\ vector_store' = IF vs_written THEN StoreUpsert(vs_deleted, new_chunk_ids)
                                 ELSE vs_deleted
              /\ text_index' = CASE outcome = "ok" -> StoreUpsert(ti_deleted, new_chunk_ids)
                                 [] outcome = "text_upsert_failed" -> StoreUpsert(ti_deleted, partial)
                                 [] OTHER -> ti_deleted
              /\ manifest_log' = [manifest_log EXCEPT ![doc_id] = Some(manifest)]
              /\ text_runs' = LastTwo(Append(text_runs,
                    [doc_id |-> doc_id, content |-> content, checksum |-> Checksum(content),
                     outcome |-> outcome, chunk_ids |-> ids, deleted |-> to_delete,
                     all_ok |-> outcome = "ok" /\ \A k \in DOMAIN text_runs : text_runs[k].all_ok,
                     vs |-> ChunksOfDoc(vector_store', doc_id),
                     ti |-> ChunksOfDoc(text_index', doc_id),
                     manifest |-> manifest_log'[doc_id]]))
    /\ UNCHANGED <<extVars, now, chunker_cfg, graphVars, hostVars>>

TextInit ==
    /\ chunker_cfg \in [chunk_size : 1..MaxChunkSize, chunk_overlap : 0..MaxOverlap]
    /\ vector_store = {}
    /\ text_index = {}
    /\ manifest_log = [d \in DocIds |-> None]
    /\ text_runs = <<>>
    /\ text_count = 0

TextIdle ==
    /\ chunker_cfg = [chunk_size |-> 1, chunk_overlap |-> 0]
    /\ vector_store = {}
    /\ text_index = {}
    /\ manifest_log = [d \in DocIds |-> None]
    /\ text_runs = <<>>
    /\ text_count = 0

(***************************************************************************)
(* GraphSink (graph_sink.py).  Instants are whole days; the ISO strings    *)
(* the code compares are ordered as the instants they denote.  One         *)
(* relation (source, type, target) is modelled: get_edges filters by it    *)
(* and every id GraphSink writes derives from relation_id.                 *)
(***************************************************************************)
\* timedelta(days=3650), line 167
ValidityDays == 3650

\* relation_id (line 161) and f"{new_edge_id}:after" (line 270)
RelationId == "R"
AfterId == "R:after"
EdgeIds == {RelationId, AfterId}
Tasks == {"t1", "t2"}

TsSources == {None} \cup {Some(t) : t \in 0..MaxTs}
Confidences == 1..MaxConf

\* the edge properties of lines 170-181
NewProperties(ts_source, confidence, t) ==
    [start |-> IF ts_source # None THEN The(ts_source) ELSE t,
     end |-> t + ValidityDays,
     conf |-> confidence,
     ts |-> t]

\* graph store contract: edges keyed by edge_id, create and update upsert
PutEdge(store, id, props) == [store EXCEPT ![id] = Some(props)]
\* get_edges(source_id, target_id, edge_type)
GetEdges(store) == {[id |-> id, props |-> The(store[id])] : id \in {x \in EdgeIds : store[x] # None}}

\* sorted(existing_edges, key=t_valid_start): a stable sort of the order the
\* store returned, which the store does not fix
SortedOrders(existing) ==
    {s \in [1..Cardinality(existing) -> existing] :
        /\ \A i, j \in DOMAIN s : i # j => s[i] # s[j]
        /\ \A i, j \in DOMAIN s : i < j => s[i].props.start <= s[j].props.start}

\* line 234
Overlaps(new_start, new_end, edge_props) ==
    new_start <= edge_props.end /\ new_end >= edge_props.start

\* line 285: the old edge always carries ts_extracted
NewIsMoreRecent(new_ts, old_ts) == new_ts > old_ts

\* which branch of lines 238-296 an overlapping edge takes
Strategy(newp, new_start, new_end, ep) ==
    IF newp.conf > ep.conf THEN "invalidate_old"
    ELSE IF newp.conf < ep.conf
         THEN IF new_start < ep.start THEN "clip_end"
              ELSE IF new_end > ep.end THEN "clip_start"
              ELSE "drop"
         ELSE IF NewIsMoreRecent(newp.ts, ep.ts) THEN "invalidate_old" ELSE "drop"

NoProps == [start |-> 0, end |-> 0, conf |-> 0, ts |-> 0]
IdleTask == [pc |-> "idle", newp |-> NoProps, orig |-> NoProps, new_start |-> 0,
             new_end |-> 0, sorted |-> <<>>, i |-> 1, cid |-> RelationId, ops |-> <<>>]

\* the loop of lines 228-296 from edge i up to its next awaited store call
RECURSIVE Scan(_)
Scan(t) ==
    IF t.i > Len(t.sorted) THEN [t EXCEPT !.pc = "done"]
    ELSE LET ep == t.sorted[t.i].props
             how == Strategy(t.newp, t.new_start, t.new_end, ep)
         IN IF ~Overlaps(t.new_start, t.new_end, ep) \/ how = "drop"
            THEN Scan([t EXCEPT !.i = @ + 1])
            ELSE CASE how = "invalidate_old" ->
                        [t EXCEPT !.sorted[t.i].props.end = t.new_start,
                                  !.pc = "update_edge", !.cid = RelationId]
                   [] how = "clip_end" ->
                        [t EXCEPT !.newp.end = ep.start,
                                  !.pc = "create_edge", !.cid = RelationId]
                   [] how = "clip_start" ->
                        [t EXCEPT !.newp.start = ep.end,
                                  !.pc = "create_edge", !.cid = AfterId]

\* _store_relations lines 155-190 and the entry of _handle_edge_conflicts:
\* the task after get_edges returned `sorted_edges` (already sorted)
AfterGetEdges(newp, sorted_edges) ==
    LET t == [IdleTask EXCEPT !.newp = newp, !.orig = newp, !.new_start = newp.start,
                              !.new_end = newp.end, !.sorted = sorted_edges]
    IN IF Len(sorted_edges) = 0
       THEN [t EXCEPT !.pc = "create_edge", !.cid = RelationId]
       ELSE Scan(t)

\* the awaited store call a task is about to make, and the task after it
StepStore(t, store) ==
    IF t.pc = "update_edge"
    THEN PutEdge(store, t.sorted[t.i].id, t.sorted[t.i].props)
    ELSE PutEdge(store, t.cid, t.newp)

StepTask(t) ==
    IF t.pc = "update_edge"
    THEN [t EXCEPT !.pc = "create_edge",
                   !.ops = Append(@, [op |-> "update", id |-> t.sorted[t.i].id,
                                      props |-> t.sorted[t.i].props])]
    ELSE LET logged == [t EXCEPT !.ops = Append(@, [op |-> "create", id |-> t.cid,
                                                    props |-> t.newp])]
         IN IF Len(t.sorted) = 0 THEN [logged EXCEPT !.pc = "done"]
            ELSE Scan([logged EXCEPT !.i = @ + 1])

\* one insert run to completion with no other task in between
RECURSIVE RunToEnd(_, _)
RunToEnd(t, store) ==
    IF t.pc = "done" THEN [task |-> t, store |-> store]
    ELSE RunToEnd(StepTask(t), StepStore(t, store))

NoEdges == [id \in EdgeIds |-> None]

\* every store a serial insert of newp can leave, over the orders get_edges may return
RunSet(store, newp) ==
    {RunToEnd(AfterGetEdges(newp, so), store).store : so \in SortedOrders(GetEdges(store))}

NoInsert == [valid |-> FALSE, before |-> NoEdges, n |-> NoProps, sorted |-> <<>>,
             ops |-> <<>>, after |-> NoEdges]
NoRound == [active |-> FALSE, base |-> NoEdges, n |-> [p \in Tasks |-> None], rounds |-> 0]

AllIdle == \A p \in Tasks : gtask[p].pc = "idle"

\* GraphSink._store_relations for one relation, run without interleaving
StoreRelation ==
    /\ gcount < MaxInserts
    /\ AllIdle
    /\ \E ts_source \in TsSources, confidence \in Confidences :
         \E sorted_edges \in SortedOrders(GetEdges(edges)) :
            LET newp == NewProperties(ts_source, confidence, now)
                r == RunToEnd(AfterGetEdges(newp, sorted_edges), edges)
            IN /\ edges' = r.store
               /\ glast' = [valid |-> TRUE, before |-> edges, n |-> newp,
                            sorted |-> sorted_edges, ops |-> r.task.ops, after |-> r.store]
    /\ gcount' = gcount + 1
    /\ UNCHANGED <<extVars, now, gtask, ground, textVars, hostVars>>

\* a task enters _store_relations and its get_edges returns (lines 155-190)
GBegin(p) ==
    /\ gtask[p].pc = "idle"
    /\ ground.n[p] = None
    /\ ground.active \/ (ground.rounds < MaxRounds /\ gcount <= MaxPrior)
    /\ \E ts_source \in TsSources, confidence \in Confidences :
         \E sorted_edges \in SortedOrders(GetEdges(edges)) :
            LET newp == NewProperties(ts_source, confidence, now)
            IN /\ gtask' = [gtask EXCEPT ![p] = AfterGetEdges(newp, sorted_edges)]
               /\ ground' = [ground EXCEPT !.active = TRUE,
                                           !.base = IF ground.active THEN @ ELSE edges,
                                           !.n[p] = Some(newp)]
    /\ UNCHANGED <<extVars, now, edges, glast, gcount, textVars, hostVars>>

\* the task's awaited update_edge completes (lines 241, 288)
GUpdateEdge(p) ==
    /\ gtask[p].pc = "update_edge"
    /\ edges' = StepStore(gtask[p], edges)
    /\ gtask' = [gtask EXCEPT ![p] = StepTask(gtask[p])]
    /\ UNCHANGED <<extVars, now, ground, glast, gcount, textVars, hostVars>>

\* the task's awaited create_edge completes (lines 195, 244, 258, 269, 290)
GCreateEdge(p) ==
    /\ gtask[p].pc = "create_edge"
    /\ edges' = StepStore(gtask[p], edges)
    /\ gtask' = [gtask EXCEPT ![p] = StepTask(gtask[p])]
    /\ UNCHANGED <<extVars, now, ground, glast, gcount, textVars, hostVars>>

\* the calls that ran together have all returned
GEndRound ==
    /\ ground.active
    /\ \A p \in Tasks : gtask[p].pc \in {"idle", "done"}
    /\ gtask' = [p \in Tasks |-> IdleTask]
    /\ ground' = [NoRound EXCEPT !.rounds = ground.rounds + 1]
    /\ UNCHANGED <<extVars, now, edges, glast, gcount, textVars, hostVars>>

GraphInit ==
    /\ edges = NoEdges
    /\ gtask = [p \in Tasks |-> IdleTask]
    /\ ground = NoRound
    /\ glast = NoInsert
    /\ gcount = 0

(***************************************************************************)
(* MCPHost (mcp/host.py).  The configuration names one tenant, "acme",     *)
(* and one of its users, "u1"; any other tenant or user is absent from it. *)
(***************************************************************************)
Tools == {"srv.search", "srv.llm"}          \* keys of MCPHost.tools
Resources == {"srv.feed"}                   \* keys of MCPHost.resources
AllowIds == Tools \cup Resources
ToolIds == Tools \cup {"srv.ghost"}         \* ids a caller may ask for
ResourceIds == Resources \cup {"srv.ghost"}
TenantOpts == {None, Some("acme"), Some("globex")}
UserOpts == {None, Some("u1"), Some("u2")}
Replies == {"ok", "timeout"}                \* server.invoke returns or raises

\* config["tenants"][tenant_id]["allowed_tools"], [] when absent (line 151)
TenantTools(cfg, tenant_id) ==
    IF tenant_id = "acme" THEN cfg.allowed_tools ELSE {}

\* config["tenants"][tenant_id]["users"][user_id]["allowed_tools"] (line 157)
UserTools(cfg, tenant_id, user_id) ==
    IF tenant_id = "acme" /\ user_id = "u1" THEN cfg.user_tools ELSE {}

\* MCPHost._check_permissions: TRUE when it returns, FALSE when it raises
CheckPermissions(cfg, tool_id, tenant_id, user) ==
    LET tenant_tools == TenantTools(cfg, tenant_id)
    IN IF tenant_tools = {} \/ tool_id \notin tenant_tools THEN FALSE
       ELSE IF user # None
            THEN LET user_tools == UserTools(cfg, tenant_id, The(user))
                 IN ~(user_tools # {} /\ tool_id \notin user_tools)
            ELSE TRUE

\* the guard of lines 216 and 274: `if tenant_id:`
PermissionCheckRuns(tenant) == tenant # None

\* invoke_tool lines 208-217 / subscribe_resource lines 266-275: what happens
\* before the transport is used
HostGate(cfg, registry, id, tenant, user) ==
    IF id \notin registry THEN "not_found"
    ELSE IF PermissionCheckRuns(tenant) /\ ~CheckPermissions(cfg, id, The(tenant), user)
         THEN "permission_denied"
         ELSE "invoke"

Request(kind, id, tenant, user) == [kind |-> kind, id |-> id, tenant |-> tenant, user |-> user]

\* how an awaited transport call ends for the host: it returns, it raises an
\* Exception (an error reply, a timeout), or the calling task is cancelled
\* (asyncio.CancelledError, which is a BaseException and no Exception)
MaxInvocations == 2
Endings == Replies \cup {"cancelled"}

\* the handlers of lines 240-249 and 288-297 are `except Exception`
CaughtByExcept(ending) == ending = "timeout"

AuditRecord(event, invocation_id) == [event |-> event, invocation_id |-> invocation_id]

\* the audit records of one invoke_tool call that reached line 224, with the
\* id _log_invocation drew (uuid4, taken as never drawn before)
ToolAudit(invocation_id, ending) ==
    <<AuditRecord("tool_invocation", invocation_id)>>
    \o (IF ending = "ok" THEN <<AuditRecord("tool_success", invocation_id)>>
        ELSE IF CaughtByExcept(ending) THEN <<AuditRecord("tool_error", invocation_id)>>
        ELSE <<>>)

\* the audit records of one subscribe_resource call that reached line 282
ResourceAudit(invocation_id, ending) ==
    <<AuditRecord("tool_invocation", invocation_id)>>
    \o (IF CaughtByExcept(ending) THEN <<AuditRecord("resource_error", invocation_id)>>
        ELSE <<>>)

\* the audit log after a direct host call
AuditAfter(gate, records) ==
    IF gate = "invoke" THEN [next |-> audit.next + 1, log |-> records]
    ELSE [audit EXCEPT !.log = <<>>]

NoAudit == [next |-> 1, log |-> <<>>]

\* MCPHost.invoke_tool called by any caller
HostInvokeTool ==
    /\ \E tool_id \in ToolIds, tenant \in TenantOpts, user \in UserOpts, reply \in Endings :
         LET gate == HostGate(host_cfg, Tools, tool_id, tenant, user)
             req == Request("invoke_tool", tool_id, tenant, user)
         IN /\ gate = "invoke" => audit.next <= MaxInvocations
            /\ transport_log' = IF gate = "invoke" THEN Some(req) ELSE transport_log
            /\ host_last' = Some([req |-> req,
                                  outcome |-> IF gate = "invoke" THEN reply ELSE gate])
            /\ audit' = AuditAfter(gate, ToolAudit(audit.next, reply))
    /\ UNCHANGED <<noAuditVars, now, host_cfg, worker, queues, textVars, graphVars>>

\* MCPHost.subscribe_resource, up to the first event or error of the stream
HostSubscribeResource ==
    /\ \E resource_id \in ResourceIds, tenant \in TenantOpts, user \in UserOpts,
          reply \in Endings :
         LET gate == HostGate(host_cfg, Resources, resource_id, tenant, user)
             req == Request("subscribe_resource", resource_id, tenant, user)
         IN /\ gate = "invoke" => audit.next <= MaxInvocations
            /\ transport_log' = IF gate = "invoke" THEN Some(req) ELSE transport_log
            /\ host_last' = Some([req |-> req,
                                  outcome |-> IF gate = "invoke" THEN reply ELSE gate])
            /\ audit' = AuditAfter(gate, ResourceAudit(audit.next, reply))
    /\ UNCHANGED <<noAuditVars, now, host_cfg, worker, queues, textVars, graphVars>>

\* LangGraphOrchestrator.llm_tool
LlmTool == "srv.llm"

\* LangGraphOrchestrator._preprocess_query: invoke_tool with no tenant and
\* no user; any exception is swallowed
PreprocessQuery ==
    /\ \E reply \in Endings :
         LET gate == HostGate(host_cfg, Tools, LlmTool, None, None)
             req == Request("invoke_tool", LlmTool, None, None)
         IN /\ gate = "invoke" => audit.next <= MaxInvocations
            /\ transport_log' = IF gate = "invoke" THEN Some(req) ELSE transport_log
            /\ host_last' = Some([req |-> req,
                                  outcome |-> IF gate = "invoke" THEN reply ELSE gate])
            /\ audit' = AuditAfter(gate, ToolAudit(audit.next, reply))
    /\ UNCHANGED <<noAuditVars, now, host_cfg, worker, queues, textVars, graphVars>>

(***************************************************************************)
(* MCPIngestionWorker.run_ingestion (ingestion_stream.py).                 *)
(***************************************************************************)
\* the loop guard of line 115: `while retry_count <= self.max_retries`
LoopGuard(retry_count, max_retries) == retry_count <= max_retries

RetryAllowedOffByOne(retry_count, max_retries) == retry_count < max_retries
\* the test of line 159, after retry_count was incremented
RetryAllowed(retry_count, max_retries) == retry_count <= max_retries

\* the retry_count written into the DLQ record, line 186
DlqRetryCount(max_retries) == max_retries

\* cursors of the tool servers
MaxCursor == 2
Cursors == {None} \cup {Some(c) : c \in 1..MaxCursor}

ParamsCursorCallerOnly(incremental, checkpoint, caller_cursor) == caller_cursor
\* lines 106-108: params["cursor"] is the checkpoint's cursor on an incremental
\* run of a tool that has a checkpoint, else whatever the caller passed
ParamsCursor(incremental, checkpoint, caller_cursor) ==
    IF incremental /\ checkpoint # None THEN checkpoint ELSE caller_cursor

\* lines 143-148: the checkpoint after a response
StoreCheckpoint(ckpts, tool_id, response_cursor) ==
    IF response_cursor # None THEN [ckpts EXCEPT ![tool_id] = response_cursor] ELSE ckpts

IdleWorker(max_retries) ==
    [pc |-> "idle", run |-> 0, tool_id |-> "srv.search", tenant_id |-> "acme",
     max_retries |-> max_retries, retry_count |-> 0, last_error |-> None,
     results |-> <<>>, raised |-> None,
     incremental |-> FALSE, params_cursor |-> None, sent |-> <<>>, cursor |-> None]

\* run_ingestion is called (lines 105-115)
StartRun ==
    /\ worker.pc \in {"idle", "returned", "raised"}
    /\ worker.run < MaxWorkerRuns
    /\ \E tool_id \in ToolIds, tenant_id \in {"acme", "globex"},
          incremental \in BOOLEAN, caller_cursor \in Cursors :
         worker' = [IdleWorker(worker.max_retries) EXCEPT
                        !.pc = IF LoopGuard(0, worker.max_retries) THEN "attempt" ELSE "raised",
                        !.run = worker.run + 1,
                        !.tool_id = tool_id, !.tenant_id = tenant_id,
                        !.incremental = incremental,
                        !.params_cursor = ParamsCursor(incremental, checkpoints[tool_id],
                                                       caller_cursor)]
    /\ UNCHANGED <<extVars, now, host_cfg, transport_log, host_last, queues, textVars, graphVars>>

\* one pass of the try block, lines 116-166: invoke_tool, then either the
\* items are enqueued and the call returns, or the exception is counted
Attempt ==
    /\ worker.pc = "attempt"
    /\ \E reply \in Replies, n_items \in 0..MaxItems, response_cursor \in Cursors :
         LET gate == HostGate(host_cfg, Tools, worker.tool_id, Some(worker.tenant_id), None)
             req == Request("invoke_tool", worker.tool_id, Some(worker.tenant_id), None)
             result == IF gate = "invoke" THEN reply ELSE gate
             retry_count == worker.retry_count + 1
         IN /\ transport_log' = IF gate = "invoke" THEN Some(req) ELSE transport_log
            /\ IF result = "ok"
               THEN /\ worker' = [worker EXCEPT !.pc = "returned",
                                                !.results = Append(@, result),
                                                !.sent = Append(@, worker.params_cursor),
                                                !.cursor = response_cursor]
                    /\ checkpoints' = StoreCheckpoint(checkpoints, worker.tool_id,
                                                      response_cursor)
                    /\ queues' = [queues EXCEPT !.ingestion = @ \o
                                    [k \in 1..n_items |->
                                        [key |-> <<worker.tenant_id, k>>, run |-> worker.run]]]
               ELSE /\ worker' = [worker EXCEPT
                                    !.pc = IF RetryAllowed(retry_count, worker.max_retries)
                                           THEN "sleep" ELSE "dlq",
                                    !.retry_count = retry_count,
                                    !.last_error = Some(result),
                                    !.results = Append(@, result),
                                    !.sent = Append(@, worker.params_cursor)]
                    /\ response_cursor = None
                    /\ UNCHANGED <<queues, checkpoints>>
    /\ UNCHANGED <<noCheckpointVars, now, host_cfg, host_last, textVars, graphVars>>

\* after the last statement of the except block the loop guard is tested;
\* line 173 raises when it fails
AfterExcept(w) ==
    IF LoopGuard(w.retry_count, w.max_retries)
    THEN [w EXCEPT !.pc = "attempt"]
    ELSE [w EXCEPT !.pc = "raised", !.raised = w.last_error]

\* asyncio.sleep(delay) of line 166 returns
Sleep ==
    /\ worker.pc = "sleep"
    /\ worker' = AfterExcept(worker)
    /\ UNCHANGED <<extVars, now, host_cfg, transport_log, host_last, queues, textVars, graphVars>>

\* _send_to_dlq (lines 170, 175-188) returns
SendToDlq ==
    /\ worker.pc = "dlq"
    /\ queues' = [queues EXCEPT !.ingestion_dlq = Append(@,
                    [key |-> <<worker.tenant_id, worker.tool_id>>,
                     tool_id |-> worker.tool_id, tenant_id |-> worker.tenant_id,
                     error |-> The(worker.last_error),
                     retry_count |-> DlqRetryCount(worker.max_retries),
                     run |-> worker.run, after_attempts |-> Len(worker.results)])]
    /\ worker' = AfterExcept(worker)
    /\ UNCHANGED <<extVars, now, host_cfg, transport_log, host_last, textVars, graphVars>>

\* MCPHost.__init__ with its config; the worker at rest
HostInit ==
    /\ host_cfg \in [allowed_tools : SUBSET AllowIds, user_tools : SUBSET AllowIds]
    /\ transport_log = None
    /\ host_last = None
    /\ worker = IdleWorker(0)
    /\ queues = [ingestion |-> <<>>, ingestion_dlq |-> <<>>]

\* MCPIngestionWorker.__init__ (lines 80-88) over a configured host; the worker
\* passes no user_id and invokes tools only, so the user allow-list and the
\* resources among the tenant's allow-list play no part
WorkerInit ==
    /\ host_cfg \in [allowed_tools : SUBSET Tools, user_tools : {{}}]
    /\ transport_log = None
    /\ host_last = None
    /\ \E n \in 0..MaxRetries : worker = IdleWorker(n)
    /\ queues = [ingestion |-> <<>>, ingestion_dlq |-> <<>>]

HostIdle ==
    /\ host_cfg = [allowed_tools |-> {}, user_tools |-> {}]
    /\ transport_log = None
    /\ host_last = None
    /\ worker = IdleWorker(0)
    /\ queues = [ingestion |-> <<>>, ingestion_dlq |-> <<>>]

GraphIdle == GraphInit

(***************************************************************************)
(* HybridRetriever._reciprocal_rank_fusion (retrieval_hybrid.py).  A ranked *)
(* list is a sequence of distinct ids, best first.                          *)
(***************************************************************************)
\* the ids the stores return, in lexical order
IdOrder == <<"d1", "d2", "d3">>
ResultIds == SeqRange(IdOrder)
MaxListLen == 3
MaxLists == 2
MaxWeight == 2
\* rrf_k: the default of line 20 and a small one
RrfKs == {1, 60}

RankedLists == {l \in SeqsUpTo(ResultIds, MaxListLen) :
                  \A i, j \in DOMAIN l : i # j => l[i] # l[j]}
ResultLists == [results : RankedLists, weight : 1..MaxWeight]

\* scores are exact: a score is counted in units of 1 / Scale(k), where
\* Scale(k) is a common multiple of every k + rank that can occur
RECURSIVE Scale(_, _)
Scale(k, rank) == IF rank > MaxListLen THEN 1 ELSE (k + rank) * Scale(k, rank + 1)
Unit(k) == Scale(k, 0)

RrfTermOneBased(weight, rank, k) == weight * (Unit(k) \div (rank + 1 + k))
\* line 126: weight * (1.0 / (rank + k)), rank counted from 0
RrfTerm(weight, rank, k) == weight * (Unit(k) \div (rank + k))

\* scores.get(doc_id, 0) + score, line 127: `scores` is a dict, kept here as
\* the sequence of its items in insertion order
ScoresAdd(scores, doc_id, score) ==
    IF \E j \in DOMAIN scores : scores[j].id = doc_id
    THEN [j \in DOMAIN scores |->
            IF scores[j].id = doc_id
            THEN [scores[j] EXCEPT !.score = @ + score]
            ELSE scores[j]]
    ELSE Append(scores, [id |-> doc_id, score |-> 0 + score])

\* the inner loop of lines 123-127 from position pos (1-based) of one list
RECURSIVE ScoreList(_, _, _, _, _)
ScoreList(scores, results, weight, k, pos) ==
    IF pos > Len(results) THEN scores
    ELSE ScoreList(ScoresAdd(scores, results[pos], RrfTerm(weight, pos - 1, k)),
                   results, weight, k, pos + 1)

\* the outer loop of lines 119-127
RECURSIVE ScoreLists(_, _, _, _)
ScoreLists(scores, result_lists, k, i) ==
    IF i > Len(result_lists) THEN scores
    ELSE ScoreLists(ScoreList(scores, result_lists[i].results, result_lists[i].weight, k, 1),
                    result_lists, k, i + 1)

\* sorted(..., key=score, reverse=True): stable, equal scores keep their order
InsertDesc(sorted, x) ==
    LET before == {j \in DOMAIN sorted : sorted[j].score >= x.score}
        n == Cardinality(before)
    IN SubSeq(sorted, 1, n) \o <<x>> \o SubSeq(sorted, n + 1, Len(sorted))

RECURSIVE SortedDesc(_, _, _)
SortedDesc(items, i, acc) ==
    IF i > Len(items) THEN acc
    ELSE SortedDesc(items, i + 1, InsertDesc(acc, items[i]))

\* HybridRetriever._reciprocal_rank_fusion
ReciprocalRankFusionOf(result_lists, k) ==
    SortedDesc(ScoreLists(<<>>, result_lists, k, 1), 1, <<>>)

NoFusion == [called |-> FALSE, result_lists |-> <<>>, k |-> 60, out |-> <<>>]

\* _reciprocal_rank_fusion is called on the inputs and returns
ReciprocalRankFusion ==
    /\ ~rrf.called
    /\ rrf' = [rrf EXCEPT !.called = TRUE,
                          !.out = ReciprocalRankFusionOf(rrf.result_lists, rrf.k)]
    /\ UNCHANGED <<coreVars, checkpoints, stream, audit, tp, gen, lateVars>>

\* the inputs of a fusion
RrfInit ==
    \E n \in 1..MaxLists :
        \E result_lists \in [1..n -> ResultLists], k \in RrfKs :
            rrf = [called |-> FALSE, result_lists |-> result_lists, k |-> k, out |-> <<>>]

RrfIdle == rrf = NoFusion

(***************************************************************************)
(* MCPIngestionWorker.start_streaming_ingestion (ingestion_stream.py).     *)
(* The events of a stream carry the ids 1, 2, ... in order of arrival.     *)
(***************************************************************************)
MaxEvents == 3

StreamResource == "srv.feed"
StreamTenant == "acme"

\* an event either normalizes or makes _normalize_to_document raise (it has no
\* "data", or data that is not a mapping); it may lack an "id"
EventData == {"good", "bad"}
\* QueueClient.produce returns or raises
ProduceOutcomes == {"ok", "raises"}

NoStream == [pc |-> "idle", last_event_id |-> None, log |-> <<>>]

\* lines 308-320: the subscription is opened; a lookup or permission failure
\* of subscribe_resource is caught by the outer handler (lines 362-365)
StartStreaming ==
    /\ stream.pc = "idle"
    /\ LET gate == HostGate(host_cfg, Resources, StreamResource, Some(StreamTenant), None)
           req == Request("subscribe_resource", StreamResource, Some(StreamTenant), None)
       IN /\ transport_log' = IF gate = "invoke" THEN Some(req) ELSE transport_log
          /\ stream' = [stream EXCEPT !.pc = IF gate = "invoke" THEN "running" ELSE "failed"]
    /\ UNCHANGED <<now, textVars, graphVars, host_cfg, host_last, worker, queues,
                   rrf, checkpoints, audit, tp, gen, lateVars>>

\* the try block of lines 321-345 for one event: "enqueued", or what raised
TryEvent(data, enqueue) ==
    IF data = "bad" THEN "normalize_failed"
    ELSE IF enqueue = "raises" THEN "enqueue_failed"
    ELSE "enqueued"

\* lines 337-341: the checkpoint after an event went through the try block
AdvanceLastEventId(last_event_id, event, tried) ==
    IF tried = "enqueued" /\ event.has_id THEN Some(event.id) ELSE last_event_id

\* one turn of the loop of lines 316-360 for the next event of the stream
StreamEvent ==
    /\ stream.pc = "running"
    /\ Len(stream.log) < MaxEvents
    /\ \E data \in EventData, has_id \in BOOLEAN, enqueue \in ProduceOutcomes,
          dlq \in ProduceOutcomes :
         LET event == [id |-> Len(stream.log) + 1, has_id |-> has_id, data |-> data]
             tried == TryEvent(data, enqueue)
             \* the handler of lines 347-360 runs when the try block raised
             handled == tried # "enqueued"
             dlq_raised == handled /\ dlq = "raises"
         IN /\ (data = "bad" => enqueue = "ok")
            /\ (~handled => dlq = "ok")
            /\ queues' =
                 IF tried = "enqueued"
                 THEN [queues EXCEPT !.ingestion =
                         Append(@, [key |-> <<StreamTenant, event.id>>, run |-> 0])]
                 ELSE IF ~dlq_raised
                      THEN [queues EXCEPT !.ingestion_dlq =
                              Append(@, [key |-> <<StreamTenant, StreamResource>>,
                                         resource_id |-> StreamResource,
                                         tenant_id |-> StreamTenant,
                                         event |-> event, error |-> tried])]
                      ELSE queues
            /\ stream' = [stream EXCEPT
                 !.last_event_id = AdvanceLastEventId(@, event, tried),
                 !.log = Append(@, [event |-> event, tried |-> tried,
                                    last_event_id |-> AdvanceLastEventId(stream.last_event_id,
                                                                         event, tried),
                                    left_loop |-> dlq_raised]),
                 \* an exception of the handler leaves the loop: lines 362-365
                 !.pc = IF dlq_raised THEN "abandoned" ELSE "running"]
    /\ UNCHANGED <<now, textVars, graphVars, host_cfg, transport_log, host_last, worker,
                   rrf, checkpoints, audit, tp, gen, lateVars>>

\* the server ends the stream, or the transport raises while waiting
StreamEnds ==
    /\ stream.pc = "running"
    /\ \E how \in {"ended", "abandoned"} : stream' = [stream EXCEPT !.pc = how]
    /\ UNCHANGED <<coreVars, rrf, checkpoints, audit, tp, gen, lateVars>>

StreamIdle == stream = NoStream

AuditInit == audit = NoAudit

(***************************************************************************)
(* StdioTransport (mcp/transports.py).  A request is known by its id; its   *)
(* state is that of its future together with what its caller got:          *)
(*   "waiting"      the caller awaits the future (line 138),                *)
(*   "result"       the read loop set the result, the caller returned it,   *)
(*   "error"        the read loop set the error reply as exception,         *)
(*   "timeout"      wait_for timed out, the caller got TimeoutError,        *)
(*   "cancelled"    the caller was cancelled, wait_for cancelled the future,*)
(*   "closed"       close() set RuntimeError("Transport closed"),           *)
(*   "write_failed" drain() raised, the future was never awaited.           *)
(***************************************************************************)
MaxRequests == 2

\* ids request_id can take: the callers' requests, mcp.initialize, mcp.shutdown
RequestIds == 1..(MaxRequests + 2)

NoTransport ==
    [process |-> "none",           \* self.process is None / a running child
     initialized |-> FALSE,        \* initialize() was called
     terminated |-> FALSE,         \* process.terminate() was called
     reader |-> "none",            \* self._read_task
     request_id |-> 0,             \* self.request_id
     pending |-> {},               \* keys of self.pending_requests
     wire |-> {},                  \* ids written to stdin and not yet answered
     state |-> [id \in RequestIds |-> "unused"],
     last_invoke |-> "none",       \* how the latest invoke got past line 112
     close |-> "idle",             \* position of the close() call
     shutdown_id |-> 0,            \* id of close()'s mcp.shutdown request
     at_call |-> {},               \* requests waiting when close() was called
     at_return |-> None]           \* request_id, wire, states when close() returned

\* lines 112-135 from the check on: the transport after the request was
\* registered and written; drained = FALSE when drain() raised
Register(t, drained) ==
    LET id == t.request_id + 1
    IN [t EXCEPT !.request_id = id,
                 !.pending = @ \cup {id},
                 !.wire = IF drained THEN @ \cup {id} ELSE @,
                 !.state[id] = IF drained THEN "waiting" ELSE "write_failed",
                 !.last_invoke = "written"]

\* line 112: `not self.process or self.process.stdin.is_closing()`
InvokeRefused(t, stdin_closing) == t.process = "none" \/ stdin_closing

\* initialize(), lines 53-69: the child is started, the read loop too, and
\* mcp.initialize is invoked
StdioInitialize ==
    /\ ~tp.initialized
    /\ tp.close = "idle"
    /\ tp' = Register([tp EXCEPT !.process = "running", !.initialized = TRUE,
                                 !.reader = "running"], TRUE)
    /\ UNCHANGED <<coreVars, rrf, checkpoints, stream, audit, gen, lateVars>>

\* a caller's invoke(), lines 110-135, up to the await of line 138.  Once the
\* child was told to terminate, whether stdin counts as closing and whether
\* drain() raises depend on how far the child got
StdioInvoke ==
    /\ \E stdin_closing \in (IF tp.terminated THEN BOOLEAN ELSE {FALSE}),
          drained \in (IF tp.terminated THEN BOOLEAN ELSE {TRUE}) :
         IF InvokeRefused(tp, stdin_closing)
         THEN tp' = [tp EXCEPT !.last_invoke = "refused"]
         ELSE /\ tp.request_id < MaxRequests + 1
              /\ tp' = Register(tp, drained)
    /\ UNCHANGED <<coreVars, rrf, checkpoints, stream, audit, gen, lateVars>>

\* the read loop handing a reply to the oldest pending request, whatever id
\* the reply carries
ReadReplyUnkeyed(t, id, kind) ==
    IF t.pending = {} THEN t
    ELSE LET oldest == CHOOSE p \in t.pending : \A q \in t.pending : p <= q
         IN [t EXCEPT !.pending = @ \ {oldest},
                      !.state[oldest] = IF @ = "waiting" THEN kind ELSE @]
\* lines 91-99: what the read loop does with a reply that carries `id`
ReadReply(t, id, kind) ==
    IF id \in t.pending
    THEN [t EXCEPT !.pending = @ \ {id},
                   \* on a future that is done set_result / set_exception raise
                   \* InvalidStateError, which line 106 logs
                   !.state[id] = IF @ = "waiting" THEN kind ELSE @]
    ELSE t

\* the server answers a request, the read loop reads the line
ReadLoop(id) ==
    /\ tp.reader = "running"
    /\ ~tp.terminated
    /\ id \in tp.wire
    /\ \E kind \in {"result", "error"} :
         tp' = [ReadReply(tp, id, kind) EXCEPT !.wire = @ \ {id}]
    /\ UNCHANGED <<coreVars, rrf, checkpoints, stream, audit, gen, lateVars>>

\* lines 139-141: wait_for times out
InvokeTimeout(id) ==
    /\ tp.state[id] = "waiting"
    /\ tp' = [tp EXCEPT !.state[id] = "timeout", !.pending = @ \ {id}]
    /\ UNCHANGED <<coreVars, rrf, checkpoints, stream, audit, gen, lateVars>>

\* the task awaiting line 138 is cancelled: wait_for cancels the future and
\* CancelledError leaves invoke() through no handler, so that nothing touches
\* self.pending_requests
InvokeCancelled(id) ==
    /\ tp.state[id] = "waiting"
    /\ id # tp.shutdown_id
    /\ tp' = [tp EXCEPT !.state[id] = "cancelled"]
    /\ UNCHANGED <<coreVars, rrf, checkpoints, stream, audit, gen, lateVars>>

\* close(), lines 181-187: mcp.shutdown is invoked (an exception is dropped)
CloseBegin ==
    /\ tp.close = "idle"
    /\ LET called == [tp EXCEPT !.at_call = {id \in tp.pending : tp.state[id] = "waiting"}]
       IN tp' = IF tp.process = "none"
                THEN [called EXCEPT !.close = "done",
                          !.at_return = Some([request_id |-> tp.request_id,
                                              wire |-> tp.wire, state |-> tp.state])]
                ELSE [Register(called, TRUE) EXCEPT !.close = "shutdown",
                                                    !.shutdown_id = tp.request_id + 1,
                                                    !.last_invoke = tp.last_invoke]
    /\ UNCHANGED <<coreVars, rrf, checkpoints, stream, audit, gen, lateVars>>

\* lines 189-198: the shutdown invoke is over; the read task is cancelled and
\* the child told to terminate; close() awaits process.wait()
CloseTerminate ==
    /\ tp.close = "shutdown"
    /\ tp.state[tp.shutdown_id] # "waiting"
    /\ tp' = [tp EXCEPT !.reader = "cancelled", !.terminated = TRUE,
                        !.close = "terminating"]
    /\ UNCHANGED <<coreVars, rrf, checkpoints, stream, audit, gen, lateVars>>

FailPendingSkipped(t) == t.state
\* lines 203-206: futures that are not done get RuntimeError("Transport closed")
FailPending(t) ==
    [id \in RequestIds |->
        IF id \in t.pending /\ t.state[id] \in {"waiting", "write_failed"}
        THEN IF t.state[id] = "waiting" THEN "closed" ELSE "write_failed"
        ELSE t.state[id]]

\* lines 199-207: process.wait() returned; close() returns
CloseFinish ==
    /\ tp.close = "terminating"
    /\ LET state == FailPending(tp)
       IN tp' = [tp EXCEPT !.process = "none", !.state = state, !.pending = {},
                           !.close = "done",
                           !.at_return = Some([request_id |-> tp.request_id,
                                               wire |-> tp.wire, state |-> state])]
    /\ UNCHANGED <<coreVars, rrf, checkpoints, stream, audit, gen, lateVars>>

TransportInit == tp = NoTransport

(***************************************************************************)
(* GroundedGenerator (grounding.py).  A context item is a chunk with a text *)
(* of some length or a graph edge, which has no "text" key.  Scores are     *)
(* counted in units of 1/max_length, so that total_length / max_length is   *)
(* the integer total_length.  A response is the sequence of its bracketed   *)
(* tokens: the number n for "[n]", -1 for a bracket without digits.         *)
(***************************************************************************)
MaxContext == 2
MaxAnswerLen == 2

max_length == 10000
Refusal == "I don't have enough information to answer that question."

ContextItems ==
    [type : {"chunk"}, id : {"a", "b"}, text_len : {3000, 7000}]
        \cup [type : {"edge"}, id : {"a", "b"}, text_len : {0}]
Contexts == UNION {[1..n -> ContextItems] : n \in 0..MaxContext}
\* config.get("min_evidence_score", 0.7), line 20: the default, never
\* refuse, always demand a full context
MinEvidenceScores == {0, 7000, 10000}
Tokens == (-1)..(MaxContext + 1)
Responses == UNION {[1..n -> Tokens] : n \in 0..MaxAnswerLen}

RECURSIVE TotalLength(_, _)
\* line 146
TotalLength(context, i) ==
    IF i > Len(context) THEN 0 ELSE context[i].text_len + TotalLength(context, i + 1)

\* _calculate_evidence_score, lines 142-152
CalculateEvidenceScore(context) ==
    IF context = <<>> THEN 0
    ELSE LET total_length == TotalLength(context, 1)
         IN IF total_length < max_length THEN total_length ELSE max_length

InsufficientOrEqual(evidence_score, min_evidence_score) == evidence_score <= min_evidence_score
\* line 38
Insufficient(evidence_score, min_evidence_score) == evidence_score < min_evidence_score

\* citation_pattern.findall, lines 21 and 192: the numbers of the markers, in
\* the order of the text
FindAll(response) == SelectSeq(response, LAMBDA t : t >= 0)

Elements(s) == {s[i] : i \in 1..Len(s)}
Orderings(S) ==
    {s \in [1..Cardinality(S) -> S] : \A i, j \in 1..Cardinality(S) : s[i] = s[j] => i = j}

IterationsOfList(response) == {FindAll(response)}
\* lines 192 and 196: the markers are put in a set and the set is iterated;
\* the language fixes no order for that
Iterations(response) == Orderings(Elements(FindAll(response)))

\* lines 200-220
Citation(item) ==
    IF item.type = "edge"
    THEN [ref_type |-> "edge", ref_id |-> item.id]
    ELSE [ref_type |-> "chunk", ref_id |-> item.id]

\* _extract_citations, lines 191-224, for one iteration order of the marker
\* set; `cited` lists the markers that gave a citation, in step with
\* `citations`
ExtractCitations(response, context, iteration) ==
    LET cited == SelectSeq(iteration, LAMBDA marker : 1 <= marker /\ marker <= Len(context))
    IN [answer |-> "response",     \* the response text, unchanged (line 224)
        cited |-> cited,
        citations |-> [j \in 1..Len(cited) |-> Citation(context[cited[j]])]]

NoGen ==
    [pc |-> "idle", context |-> <<>>, min_evidence_score |-> 0, llm_calls |-> 0,
     response |-> <<>>, result |-> None]

\* generate_with_citations, lines 37-72; the language model answers with any
\* response or raises
GenerateWithCitations ==
    /\ gen.pc = "called"
    /\ LET evidence_score == CalculateEvidenceScore(gen.context)
       IN IF Insufficient(evidence_score, gen.min_evidence_score)
          THEN gen' = [gen EXCEPT !.pc = "returned",
                           !.result = Some([answer |-> Refusal,
                                            cited |-> <<>>, citations |-> <<>>,
                                            has_sufficient_evidence |-> FALSE,
                                            evidence_score |-> evidence_score])]
          ELSE \/ gen' = [gen EXCEPT !.pc = "raised", !.llm_calls = @ + 1]
               \/ \E response \in Responses : \E iteration \in Iterations(response) :
                    LET extracted == ExtractCitations(response, gen.context, iteration)
                    IN gen' = [gen EXCEPT !.pc = "returned", !.llm_calls = @ + 1,
                                    !.response = response,
                                    !.result = Some([answer |-> extracted.answer,
                                             cited |-> extracted.cited,
                                             citations |-> extracted.citations,
                                             has_sufficient_evidence |-> TRUE,
                                             evidence_score |-> evidence_score])]
    /\ UNCHANGED <<coreVars, rrf, checkpoints, stream, audit, tp, lateVars>>

\* a generator with some configuration is called with some context
GenInit ==
    \E context \in Contexts, min_evidence_score \in MinEvidenceScores :
        gen = [NoGen EXCEPT !.pc = "called", !.context = context,
                            !.min_evidence_score = min_evidence_score]
GenIdle == gen = NoGen


(***************************************************************************)
(* GroundedGenerator.generate_stream (grounding.py): an async generator.    *)
(* A frame is what one `yield` hands to the consumer; a citations frame     *)
(* carries the list in `citations`, an answer frame its text in `content`.  *)
(***************************************************************************)
MaxChunks == 2

LlmChunks == {"tok1", "tok2"}

AnswerFrame(content, done) ==
    [type |-> "answer", content |-> content, citations |-> <<>>, done |-> done]
CitationsFrame(citations) ==
    [type |-> "citations", content |-> "", citations |-> citations, done |-> TRUE]

\* _extract_citations_from_context, lines 226-265
ExtractCitationsFromContext(context) ==
    [i \in 1..Len(context) |->
        [index |-> i, ref_type |-> context[i].type, ref_id |-> context[i].id]]

NoGenStream ==
    [pc |-> "idle", context |-> <<>>, min_evidence_score |-> 0,
     llm_chunks |-> <<>>,          \* what llm_client.generate_stream yielded
     frames |-> <<>>,              \* what the consumer received
     exit |-> "none"]

\* lines 88-110: the evidence check; the refusal frame and return, or the
\* prompt is built and the language-model stream opened
GenerateStreamStart ==
    /\ gs.pc = "called"
    /\ gs' = IF Insufficient(CalculateEvidenceScore(gs.context), gs.min_evidence_score)
             THEN [gs EXCEPT !.pc = "ended", !.exit = "refusal",
                             !.frames = <<AnswerFrame(Refusal, TRUE)>>]
             ELSE [gs EXCEPT !.pc = "streaming"]
    /\ UNCHANGED <<coreVars, midVars, rr, orch, norm, ck, batch, qc>>

\* lines 113-118: the language model yields a chunk, the frame is yielded
GenerateStreamChunk ==
    /\ gs.pc = "streaming"
    /\ Len(gs.llm_chunks) < MaxChunks
    /\ \E chunk \in LlmChunks :
         gs' = [gs EXCEPT !.llm_chunks = Append(@, chunk),
                          !.frames = Append(@, AnswerFrame(chunk, FALSE))]
    /\ UNCHANGED <<coreVars, midVars, rr, orch, norm, ck, batch, qc>>

\* lines 120-126: the language-model stream is exhausted
GenerateStreamCitations ==
    /\ gs.pc = "streaming"
    /\ gs' = [gs EXCEPT !.pc = "ended", !.exit = "success",
                 !.frames = Append(@, CitationsFrame(ExtractCitationsFromContext(gs.context)))]
    /\ UNCHANGED <<coreVars, midVars, rr, orch, norm, ck, batch, qc>>

\* line 113: llm_client.generate_stream raises; no handler and no finally
\* stands between the loop and the consumer
GenerateStreamRaises ==
    /\ gs.pc = "streaming"
    /\ gs' = [gs EXCEPT !.pc = "ended", !.exit = "error"]
    /\ UNCHANGED <<coreVars, midVars, rr, orch, norm, ck, batch, qc>>

\* the consuming task is cancelled while the generator awaits the next chunk
\* (line 113) or is suspended at the yield of line 114
GenerateStreamCancelled ==
    /\ gs.pc = "streaming"
    /\ gs' = [gs EXCEPT !.pc = "ended", !.exit = "cancelled"]
    /\ UNCHANGED <<coreVars, midVars, rr, orch, norm, ck, batch, qc>>

GenStreamInit ==
    \E context \in Contexts, min_evidence_score \in MinEvidenceScores :
        gs = [NoGenStream EXCEPT !.pc = "called", !.context = context,
                                 !.min_evidence_score = min_evidence_score]
GenStreamIdle == gs = NoGenStream

(***************************************************************************)
(* CrossEncoderReranker (reranker.py).  One query and one model name; a     *)
(* candidate is its id and the score it got from retrieval.  The model's    *)
(* base score of a document is an integer, the final score is counted in    *)
(* units of 1/20: recency_weight 0.1, entity_weight 0.2, default recency    *)
(* 0.5.  The cache client is a collaborator with get / set(ttl); it is      *)
(* modelled by its contract: a key holds the last value set until it        *)
(* expires.                                                                 *)
(***************************************************************************)
MaxCandidates == 2
MaxTopK == 2
MaxCalls == 2
MaxBase == 1

\* retrieval scores, in tenths
CandidateScores == {5, 9}
Candidates == [id : ResultIds, score : CandidateScores]
CandidateLists ==
    {l \in SeqsUpTo(Candidates, MaxCandidates) :
        l # <<>> /\ \A i, j \in DOMAIN l : i # j => l[i].id # l[j].id}
\* features["entity_overlap"]: the ids that have the entry 1.0
FeatureSets == [entity_overlap : {{}, {"d1"}, {"d3"}}]
BaseScores == [ResultIds -> 0..MaxBase]

\* _get_recency_feature, lines 96-118, for candidates without ts_source and
\* features without "recency": 0.5, in halves
GetRecencyFeature(candidate, features) == 1

\* _get_entity_overlap_feature, lines 120-127
GetEntityOverlapFeature(candidate, features) ==
    IF candidate.id \in features.entity_overlap THEN 1 ELSE 0

\* _score_batch, line 147: score + 0.1 * recency + 0.2 * entity_overlap
AdjustedScore(score, recency, entity_overlap) ==
    20 * score + recency + 4 * entity_overlap

\* line 75: sorted(candidates, key=rerank_score, reverse=True), stable
InsertByRerankScore(sorted, x) ==
    LET n == Cardinality({j \in DOMAIN sorted : sorted[j].rerank_score >= x.rerank_score})
    IN SubSeq(sorted, 1, n) \o <<x>> \o SubSeq(sorted, n + 1, Len(sorted))

RECURSIVE SortedByRerankScore(_, _, _)
SortedByRerankScore(items, i, acc) ==
    IF i > Len(items) THEN acc
    ELSE SortedByRerankScore(items, i + 1, InsertByRerankScore(acc, items[i]))

\* lines 47-75: pairs, scores, rerank_score set on each candidate, stable sort
\* by descending rerank_score
Reranked(base, candidates, features) ==
    LET scored == [i \in DOMAIN candidates |->
            [id |-> candidates[i].id,
             score |-> candidates[i].score,
             rerank_score |-> AdjustedScore(base[candidates[i].id],
                                     GetRecencyFeature(candidates[i], features),
                                     GetEntityOverlapFeature(candidates[i], features))]]
    IN SortedByRerankScore(scored, 1, <<>>)

\* reranked[:top_k]
Prefix(s, n) == SubSeq(s, 1, IF n < Len(s) THEN n ELSE Len(s))

\* _compute_cache_key, lines 83-94: query, sorted ids, model name
ComputeCacheKey(candidates) == {candidates[i].id : i \in DOMAIN candidates}
CacheKeys == SUBSET ResultIds

\* cache_client.get / cache_client.set
CacheGet(cache, key) == cache[key]
CacheSet(cache, key, value) == [cache EXCEPT ![key] = Some(value)]

NoRerank ==
    [base |-> [id \in ResultIds |-> 0],
     cache |-> [key \in CacheKeys |-> None],
     calls |-> 0,
     last |-> None]

\* rerank(), lines 25-81, with a cache client
Rerank ==
    /\ rr.calls < MaxCalls
    /\ \E candidates \in CandidateLists, features \in FeatureSets, top_k \in 1..MaxTopK :
         LET cache_key == ComputeCacheKey(candidates)
             cached_result == CacheGet(rr.cache, cache_key)
             \* line 44: a cached empty list counts as a miss
             hit == cached_result # None /\ The(cached_result) # <<>>
             result == IF hit THEN The(cached_result)
                       ELSE Prefix(Reranked(rr.base, candidates, features), top_k)
         IN rr' = [rr EXCEPT !.calls = @ + 1,
                       !.cache = IF hit THEN @ ELSE CacheSet(@, cache_key, result),
                       !.last = Some([candidates |-> candidates, features |-> features,
                                      top_k |-> top_k, hit |-> hit, result |-> result])]
    /\ UNCHANGED <<coreVars, midVars, gs, orch, norm, ck, batch, qc>>

\* cache_ttl has passed for an entry
CacheExpire ==
    /\ \E key \in CacheKeys :
         /\ rr.cache[key] # None
         /\ rr' = [rr EXCEPT !.cache[key] = None]
    /\ UNCHANGED <<coreVars, midVars, gs, orch, norm, ck, batch, qc>>

RerankInit == \E base \in BaseScores : rr = [NoRerank EXCEPT !.base = base]
RerankIdle == rr = NoRerank

(***************************************************************************)
(* LangGraphOrchestrator, the nodes rerank_results and generate_response    *)
(* (langgraph_orchestrator.py).  Its reranker has no cache client, as in    *)
(* pipeline.py line 64.  Thresholds and retrieval scores are in tenths.     *)
(***************************************************************************)
\* config.get("quality_threshold", 0.7), line 120: no filtering, the default
QualityThresholds == {0, 7}
NoAnswerResponse == "I don't have enough relevant information to answer that question."

\* extract_features(query, candidates) without a graph client, lines 167-173:
\* recency entries only
ExtractFeatures(candidates) == [entity_overlap |-> {}]

\* line 121
QualityFilter(reranked, threshold) == SelectSeq(reranked, LAMBDA r : r.score >= threshold)

NoQuery ==
    [pc |-> "idle", base |-> [id \in ResultIds |-> 0], candidates |-> <<>>,
     final_k |-> 0, threshold |-> 0,
     reranker_out |-> <<>>,        \* what reranker.rerank returned
     reranked |-> <<>>,            \* state["reranked"]
     generator_called |-> FALSE,
     handed |-> <<>>,              \* the context given to generate_with_citations
     response |-> ""]

\* _rerank_results, lines 99-124
RerankResults ==
    /\ orch.pc = "retrieved"
    /\ orch' =
         IF orch.candidates = <<>>
         THEN [orch EXCEPT !.pc = "reranked", !.reranked = <<>>]
         ELSE LET features == ExtractFeatures(orch.candidates)
                  reranked == Prefix(Reranked(orch.base, orch.candidates, features),
                                     orch.final_k)
              IN [orch EXCEPT !.pc = "reranked", !.reranker_out = reranked,
                              !.reranked = QualityFilter(reranked, orch.threshold)]
    /\ UNCHANGED <<coreVars, midVars, gs, rr, norm, ck, batch, qc>>

\* _generate_response, lines 126-147
GenerateResponse ==
    /\ orch.pc = "reranked"
    /\ orch' =
         IF orch.reranked = <<>>
         THEN [orch EXCEPT !.pc = "generated", !.response = NoAnswerResponse]
         ELSE [orch EXCEPT !.pc = "generated", !.generator_called = TRUE,
                           !.handed = orch.reranked, !.response = "answer"]
    /\ UNCHANGED <<coreVars, midVars, gs, rr, norm, ck, batch, qc>>

\* a query whose candidates were retrieved
OrchInit ==
    \E base \in BaseScores, candidates \in CandidateLists \cup {<<>>},
       final_k \in 1..MaxTopK, threshold \in QualityThresholds :
        orch = [NoQuery EXCEPT !.pc = "retrieved", !.base = base,
                               !.candidates = candidates, !.final_k = final_k,
                               !.threshold = threshold]
OrchIdle == orch = NoQuery

(***************************************************************************)
(* Normalizer (normalizer.py).  Strings that the code builds with ":" are   *)
(* the sequences of their parts: "tenant:acme" is <<"tenant", "acme">>.     *)
(* Content is a sequence of tokens, some of which a PII pattern matches.    *)
(* A checksum is the md5 of its input, kept as that input.                  *)
(***************************************************************************)
MaxContentLen == 2
MaxAcls == 2

NormTenant == "acme"
NormTool == "crm"
ContentTokens == {"word", "a@b.io", "[REDACTED]"}
PiiTokens == {"a@b.io"}
SourceAcls == {<<"eng">>, <<"ops">>}
\* config["acl_mappings"][source_tool]: no mapping, or a direct one for "eng"
AclMappings == {None, Some([from |-> <<"eng">>, to |-> <<"group", "eng">>])}
NormTimes == 1..2

\* PIIDetector.scrub, lines 69-85
Scrub(content) ==
    [i \in DOMAIN content |-> IF content[i] \in PiiTokens THEN "[REDACTED]" ELSE content[i]]

\* the loop body of map_acls, lines 115-133, without pattern mappings
MapAcl(acl, source_tool, tool_mappings) ==
    IF tool_mappings # None /\ The(tool_mappings).from = acl
    THEN The(tool_mappings).to
    ELSE <<source_tool>> \o acl

\* ACLMapper.map_acls, lines 96-135
MapAcls(source_acls, source_tool, tenant_id, tool_mappings) ==
    <<<<"tenant", tenant_id>>>>
        \o [i \in DOMAIN source_acls |-> MapAcl(source_acls[i], source_tool, tool_mappings)]

\* lines 188-194
Md5Of(source_id, content, metadata, ts_source) ==
    [kind |-> "md5", of |-> <<source_id, content, metadata, ts_source>>]
GivenChecksum == [kind |-> "given", of |-> <<>>]

\* Normalizer.normalize, lines 148-211, at time t for a document that has
\* its required fields
Normalize(document, scrub_pii, tool_mappings, t) ==
    LET content == IF scrub_pii /\ document.content # <<>>
                   THEN Scrub(document.content) ELSE document.content
        ts_source == IF document.ts_source # None THEN The(document.ts_source) ELSE t
        ts_ingested == IF document.ts_ingested # None THEN The(document.ts_ingested) ELSE t
        checksum == IF document.checksum # None THEN The(document.checksum)
                    ELSE Md5Of(document.source_id, content, document.metadata, ts_source)
    IN [id |-> <<document.tenant_id, document.source_tool, document.source_id>>,
        tenant_id |-> document.tenant_id,
        source_tool |-> document.source_tool,
        source_id |-> document.source_id,
        content |-> content,
        metadata |-> document.metadata,
        acl |-> MapAcls(document.acl, document.source_tool, document.tenant_id, tool_mappings),
        ts_source |-> Some(ts_source),
        ts_ingested |-> Some(ts_ingested),
        checksum |-> Some(checksum)]

SourceDocuments ==
    [tenant_id : {NormTenant}, source_tool : {NormTool}, source_id : {"s1"},
     content : SeqsUpTo(ContentTokens, MaxContentLen),
     metadata : {"meta"},
     acl : SeqsUpTo(SourceAcls, MaxAcls),
     ts_source : {None, Some(1)},
     ts_ingested : {None},
     checksum : {None, Some(GivenChecksum)}]

NoNormalize ==
    [pc |-> "idle", scrub_pii |-> TRUE, tool_mappings |-> None, document |-> None,
     once |-> None, twice |-> None]

\* normalize(x), some time later normalize(normalize(x)); the second call
\* reads the fields by the same keys the first call wrote
NormalizeTwice ==
    /\ norm.pc = "called"
    /\ \E t1 \in NormTimes, t2 \in NormTimes :
         /\ t1 <= t2
         /\ LET once == Normalize(The(norm.document), norm.scrub_pii, norm.tool_mappings, t1)
                twice == Normalize(once, norm.scrub_pii, norm.tool_mappings, t2)
            IN norm' = [norm EXCEPT !.pc = "done", !.once = Some(once), !.twice = Some(twice)]
    /\ UNCHANGED <<coreVars, midVars, gs, rr, orch, ck, batch, qc>>

NormInit ==
    \E document \in SourceDocuments, scrub_pii \in BOOLEAN, tool_mappings \in AclMappings :
        norm = [NoNormalize EXCEPT !.pc = "called", !.document = Some(document),
                                   !.scrub_pii = scrub_pii, !.tool_mappings = tool_mappings]
NormIdle == norm = NoNormalize

(***************************************************************************)
(* Chunker.chunk_document as a function of content and configuration,      *)
(* on contents with more paragraphs than the text sink's runs use.         *)
(***************************************************************************)
MaxChunkParas == 3

ChunkerContents == SeqsUpTo(Paragraphs, MaxChunkParas) \ {<<>>}
ChunkerConfigs == [chunk_size : 1..MaxChunkSize, chunk_overlap : 0..MaxOverlap]

\* _create_chunk, line 88: tokens = len(text.split())
ChunkTokens(text) == Len(Split(text))

NoChunking ==
    [pc |-> "idle", content |-> <<>>, cfg |-> [chunk_size |-> 1, chunk_overlap |-> 0],
     chunks |-> <<>>]

\* chunk_document, lines 24-71
ChunkDocumentCall ==
    /\ ck.pc = "called"
    /\ ck' = [ck EXCEPT !.pc = "done",
                  !.chunks = LET texts == ChunkDocument(ck.content, ck.cfg)
                             IN [i \in DOMAIN texts |->
                                    [text |-> texts[i], tokens |-> ChunkTokens(texts[i])]]]
    /\ UNCHANGED <<coreVars, midVars, gs, rr, orch, norm, batch, qc>>

ChunkerInit ==
    \E content \in ChunkerContents, cfg \in ChunkerConfigs :
        ck = [NoChunking EXCEPT !.pc = "called", !.content = content, !.cfg = cfg]
ChunkerIdle == ck = NoChunking

(***************************************************************************)
(* Batch ingest (web_ingestion.py, docling_ingestion.py,                    *)
(* unified_ingestion.py): one task per source, gathered.  A task is         *)
(* "created", then "in_flight" while its single-source ingest runs, then    *)
(* "done" (the ingest returned or raised).                                  *)
(***************************************************************************)
MaxConcurrent == 2
MaxSources == 3

\* ingest_urls and ingest_directory make a Semaphore(max_concurrent), lines
\* 35 and 85; _ingest_multiple makes none
EntryPoints == {"ingest_urls", "ingest_directory", "_ingest_multiple"}
HasSemaphore(entry) == entry \in {"ingest_urls", "ingest_directory"}

NoBatch ==
    [pc |-> "idle", entry |-> "ingest_urls", max_concurrent |-> 1,
     semaphore |-> None,           \* the semaphore's value, if there is one
     task |-> <<>>]

InFlight(b) == {i \in DOMAIN b.task : b.task[i] = "in_flight"}

\* process_url / process_file enter `async with semaphore` (lines 38, 88) and
\* call the single-source ingest; a task of _ingest_multiple (line 72) calls
\* self.ingest at once
TaskStarts(i) ==
    /\ batch.pc = "gathering"
    /\ i \in DOMAIN batch.task
    /\ batch.task[i] = "created"
    /\ IF batch.semaphore # None
       THEN /\ The(batch.semaphore) > 0
            /\ batch' = [batch EXCEPT !.task[i] = "in_flight",
                                      !.semaphore = Some(The(batch.semaphore) - 1)]
       ELSE batch' = [batch EXCEPT !.task[i] = "in_flight"]
    /\ UNCHANGED <<coreVars, midVars, gs, rr, orch, norm, ck, qc>>

\* the single-source ingest returns or raises; the semaphore is released
TaskEnds(i) ==
    /\ batch.pc = "gathering"
    /\ i \in DOMAIN batch.task
    /\ batch.task[i] = "in_flight"
    /\ batch' = [batch EXCEPT !.task[i] = "done",
                     !.semaphore = IF @ # None THEN Some(The(@) + 1) ELSE @]
    /\ UNCHANGED <<coreVars, midVars, gs, rr, orch, norm, ck, qc>>

\* asyncio.gather returns, lines 46, 75, 97
GatherReturns ==
    /\ batch.pc = "gathering"
    /\ \A i \in DOMAIN batch.task : batch.task[i] = "done"
    /\ batch' = [batch EXCEPT !.pc = "returned"]
    /\ UNCHANGED <<coreVars, midVars, gs, rr, orch, norm, ck, qc>>

\* a batch entry point was called with some sources: the tasks are created
BatchInit ==
    \E entry \in EntryPoints, max_concurrent \in 1..MaxConcurrent, n \in 1..MaxSources :
        batch = [pc |-> "gathering", entry |-> entry, max_concurrent |-> max_concurrent,
                 semaphore |-> IF HasSemaphore(entry) THEN Some(max_concurrent) ELSE None,
                 task |-> [i \in 1..n |-> "created"]]
BatchIdle == batch = NoBatch

(***************************************************************************)
(* InMemoryQueueClient (ingestion_stream.py): produce and consume.  The    *)
(* messages of a topic are queues[topic]; a task is one                    *)
(* asyncio.create_task(callback(key, value)) of produce, tagged with the   *)
(* position of its message in the topic.                                   *)
(***************************************************************************)
MaxMessages == 2
MaxConsumers == 1

Topics == {"ingestion", "ingestion_dlq"}
MessageKeys == {"k1", "k2"}
Callbacks == {"callback"}

\* every message ever produced, over both topics
Produced == Len(queues.ingestion) + Len(queues.ingestion_dlq)

\* produce(topic, key, value): append the message, then create one task per
\* consumer registered on the topic at this moment
Produce(topic, key) ==
    /\ Produced < MaxMessages
    /\ queues' = [queues EXCEPT ![topic] = Append(@, [key |-> key, value |-> key])]
    /\ qc' = [qc EXCEPT !.tasks = @ \o
                [k \in 1..Len(qc.consumers[topic]) |->
                    [topic |-> topic, pos |-> Len(queues[topic]) + 1, key |-> key,
                     callback |-> qc.consumers[topic][k], state |-> "created"]]]
    /\ UNCHANGED <<now, textVars, graphVars, host_cfg, transport_log, host_last, worker,
                   midVars, gs, rr, orch, norm, ck, batch>>

\* consume(topic, callback): only appends the callback to consumers[topic]
Consume(topic, callback) ==
    /\ Len(qc.consumers[topic]) < MaxConsumers
    /\ qc' = [qc EXCEPT !.consumers[topic] = Append(@, callback)]
    /\ UNCHANGED <<coreVars, midVars, gs, rr, orch, norm, ck, batch>>

\* the event loop runs a created task: the callback returns or raises; the
\* exception stays in the task, which nobody awaits
CallbackRuns(i) ==
    /\ i \in DOMAIN qc.tasks
    /\ qc.tasks[i].state = "created"
    /\ \E outcome \in {"returned", "raised"} :
        qc' = [qc EXCEPT !.tasks[i].state = outcome]
    /\ UNCHANGED <<coreVars, midVars, gs, rr, orch, norm, ck, batch>>

QueueInit == qc = [consumers |-> [t \in Topics |-> <<>>], tasks |-> <<>>]
QueueIdle == QueueInit

\* the subsystems of lateVars at rest
LateIdle ==
    /\ GenStreamIdle /\ RerankIdle /\ OrchIdle /\ NormIdle /\ ChunkerIdle
    /\ BatchIdle /\ QueueIdle

\* config.get("checkpoints", {}), line 84
CheckpointsInit == checkpoints = [t \in ToolIds |-> None]

\* the subsystems beside the sinks, the host and the worker, at rest
MidIdle == RrfIdle /\ CheckpointsInit /\ StreamIdle /\ AuditInit /\ TransportInit /\ GenIdle
ExtIdle == MidIdle /\ LateIdle

(***************************************************************************)
(* Specifications.  Each subsystem is checked with the others at rest.     *)
(***************************************************************************)
ClockTick == Tick /\ UNCHANGED <<textVars, graphVars, hostVars, extVars>>

Init ==
    /\ now = 0 /\ TextInit /\ GraphInit /\ WorkerInit /\ RrfInit /\ CheckpointsInit
    /\ StreamIdle /\ AuditInit /\ TransportInit /\ GenInit
    /\ GenStreamInit /\ RerankInit /\ OrchInit /\ NormInit /\ ChunkerInit
    /\ BatchInit /\ QueueInit

Next ==
    \/ ClockTick
    \/ ProcessDocument
    \/ StoreRelation
    \/ \E p \in Tasks : GBegin(p)
    \/ \E p \in Tasks : GUpdateEdge(p)
    \/ \E p \in Tasks : GCreateEdge(p)
    \/ GEndRound
    \/ HostInvokeTool
    \/ HostSubscribeResource
    \/ PreprocessQuery
    \/ StartRun
    \/ Attempt
    \/ Sleep
    \/ SendToDlq
    \/ ReciprocalRankFusion
    \/ StartStreaming
    \/ StreamEvent
    \/ StreamEnds
    \/ StdioInitialize
    \/ StdioInvoke
    \/ \E id \in RequestIds : ReadLoop(id)
    \/ \E id \in RequestIds : InvokeTimeout(id)
    \/ \E id \in RequestIds : InvokeCancelled(id)
    \/ CloseBegin
    \/ CloseTerminate
    \/ CloseFinish
    \/ GenerateWithCitations
    \/ GenerateStreamStart
    \/ GenerateStreamChunk
    \/ GenerateStreamCitations
    \/ GenerateStreamRaises
    \/ GenerateStreamCancelled
    \/ Rerank
    \/ CacheExpire
    \/ RerankResults
    \/ GenerateResponse
    \/ NormalizeTwice
    \/ ChunkDocumentCall
    \/ \E i \in 1..MaxSources : TaskStarts(i)
    \/ \E i \in 1..MaxSources : TaskEnds(i)
    \/ GatherReturns
    \/ \E topic \in Topics, key \in MessageKeys : Produce(topic, key)
    \/ \E topic \in Topics, callback \in Callbacks : Consume(topic, callback)
    \/ \E i \in 1..(MaxMessages * MaxConsumers) : CallbackRuns(i)

Spec == Init /\ [][Next]_vars

\* TextSink
InitText == now = 0 /\ TextInit /\ GraphIdle /\ HostIdle /\ ExtIdle
NextText == ClockTick \/ ProcessDocument
SpecText == InitText /\ [][NextText]_vars

\* GraphSink, one insert at a time
InitGraph == now = 0 /\ TextIdle /\ GraphInit /\ HostIdle /\ ExtIdle
NextGraph == ClockTick \/ StoreRelation
SpecGraph == InitGraph /\ [][NextGraph]_vars

\* GraphSink, two process_document calls interleaved at their awaits
NextGraphConc ==
    \/ ClockTick
    \/ StoreRelation
    \/ \E p \in Tasks : GBegin(p)
    \/ \E p \in Tasks : GUpdateEdge(p)
    \/ \E p \in Tasks : GCreateEdge(p)
    \/ GEndRound
SpecGraphConc == InitGraph /\ [][NextGraphConc]_vars

\* MCPHost called directly
InitHost == now = 0 /\ TextIdle /\ GraphIdle /\ HostInit /\ ExtIdle
NextHost == HostInvokeTool \/ HostSubscribeResource \/ PreprocessQuery
SpecHost == InitHost /\ [][NextHost]_vars

\* MCPIngestionWorker over MCPHost
NextWorker == StartRun \/ Attempt \/ Sleep \/ SendToDlq
InitWorker == now = 0 /\ TextIdle /\ GraphIdle /\ WorkerInit /\ ExtIdle
SpecWorker == InitWorker /\ [][NextWorker]_vars

\* the sinks, the host and the worker at rest
CoreIdle == now = 0 /\ TextIdle /\ GraphIdle /\ HostIdle

\* HybridRetriever's fusion
InitRrf ==
    /\ CoreIdle /\ RrfInit /\ CheckpointsInit /\ StreamIdle /\ AuditInit /\ TransportInit /\ GenIdle
    /\ LateIdle
NextRrf == ReciprocalRankFusion
SpecRrf == InitRrf /\ [][NextRrf]_vars

\* MCPIngestionWorker's streaming ingestion over MCPHost
InitStream == now = 0 /\ TextIdle /\ GraphIdle /\ HostInit /\ ExtIdle
NextStream == StartStreaming \/ StreamEvent \/ StreamEnds
SpecStream == InitStream /\ [][NextStream]_vars

\* StdioTransport: callers, the read loop and close() interleaved at their awaits
InitTransport == CoreIdle /\ ExtIdle
NextTransport ==
    \/ StdioInitialize
    \/ StdioInvoke
    \/ \E id \in RequestIds : ReadLoop(id)
    \/ \E id \in RequestIds : InvokeTimeout(id)
    \/ \E id \in RequestIds : InvokeCancelled(id)
    \/ CloseBegin
    \/ CloseTerminate
    \/ CloseFinish
SpecTransport == InitTransport /\ [][NextTransport]_vars

\* GroundedGenerator: one call of generate_with_citations on drawn inputs
InitGrounding ==
    /\ CoreIdle /\ RrfIdle /\ CheckpointsInit /\ StreamIdle /\ AuditInit /\ TransportInit
    /\ GenInit
    /\ LateIdle
NextGrounding == GenerateWithCitations
SpecGrounding == InitGrounding /\ [][NextGrounding]_vars

\* GroundedGenerator.generate_stream: one run on drawn inputs, every exit
InitGenStream ==
    /\ CoreIdle /\ MidIdle /\ GenStreamInit /\ RerankIdle /\ OrchIdle /\ NormIdle /\ ChunkerIdle
    /\ BatchIdle /\ QueueIdle
NextGenStream ==
    \/ GenerateStreamStart
    \/ GenerateStreamChunk
    \/ GenerateStreamCitations
    \/ GenerateStreamRaises
    \/ GenerateStreamCancelled
SpecGenStream == InitGenStream /\ [][NextGenStream]_vars

\* CrossEncoderReranker: rerank calls sharing one cache
InitRerank ==
    /\ CoreIdle /\ MidIdle /\ GenStreamIdle /\ RerankInit /\ OrchIdle /\ NormIdle /\ ChunkerIdle
    /\ BatchIdle /\ QueueIdle
NextRerank == Rerank \/ CacheExpire
SpecRerank == InitRerank /\ [][NextRerank]_vars

\* LangGraphOrchestrator: one query from its candidates to its response
InitOrch ==
    /\ CoreIdle /\ MidIdle /\ GenStreamIdle /\ RerankIdle /\ OrchInit /\ NormIdle /\ ChunkerIdle
    /\ BatchIdle /\ QueueIdle
NextOrch == RerankResults \/ GenerateResponse
SpecOrch == InitOrch /\ [][NextOrch]_vars

\* Normalizer: normalize applied twice to drawn documents
InitNorm ==
    /\ CoreIdle /\ MidIdle /\ GenStreamIdle /\ RerankIdle /\ OrchIdle /\ NormInit /\ ChunkerIdle
    /\ BatchIdle /\ QueueIdle
NextNorm == NormalizeTwice
SpecNorm == InitNorm /\ [][NextNorm]_vars

\* Chunker: chunk_document on drawn contents and configurations
InitChunker ==
    /\ CoreIdle /\ MidIdle /\ GenStreamIdle /\ RerankIdle /\ OrchIdle /\ NormIdle
    /\ ChunkerInit /\ BatchIdle /\ QueueIdle
NextChunker == ChunkDocumentCall
SpecChunker == InitChunker /\ [][NextChunker]_vars

\* batch ingest: the tasks of one gather, interleaved
InitBatch ==
    /\ CoreIdle /\ MidIdle /\ GenStreamIdle /\ RerankIdle /\ OrchIdle /\ NormIdle
    /\ ChunkerIdle /\ BatchInit /\ QueueInit
NextBatch ==
    \/ \E i \in 1..MaxSources : TaskStarts(i)
    \/ \E i \in 1..MaxSources : TaskEnds(i)
    \/ GatherReturns
SpecBatch == InitBatch /\ [][NextBatch]_vars

\* the queue client: producers, consumers and the event loop, interleaved
InitQueue ==
    /\ CoreIdle /\ MidIdle /\ GenStreamIdle /\ RerankIdle /\ OrchIdle /\ NormIdle
    /\ ChunkerIdle /\ BatchIdle /\ QueueInit
NextQueue ==
    \/ \E topic \in Topics, key \in MessageKeys : Produce(topic, key)
    \/ \E topic \in Topics, callback \in Callbacks : Consume(topic, callback)
    \/ \E i \in 1..(MaxMessages * MaxConsumers) : CallbackRuns(i)
\* the event loop runs every task it was given, and a consumer registers on
\* every topic sooner or later
SpecQueue ==
    /\ InitQueue /\ [][NextQueue]_vars
    /\ \A i \in 1..(MaxMessages * MaxConsumers) : WF_vars(CallbackRuns(i))
    /\ \A topic \in Topics : WF_vars(\E callback \in Callbacks : Consume(topic, callback))

(***************************************************************************)
(* Claims about the TextSink (SpecText).                                   *)
(***************************************************************************)
ManifestIds(run) == IF run.manifest = None THEN {} ELSE SeqRange(The(run.manifest).chunk_ids)

\* C1: after any sequence of successful process_document runs for a document,
\* the chunk ids of the document in the vector store and in the text index
\* each equal the manifest's chunk_ids, which are the ids of the latest run.
C1_IndexedEqualsManifest ==
    \A k \in DOMAIN text_runs :
        LET run == text_runs[k]
        IN run.all_ok =>
             /\ run.manifest # None
             /\ ManifestIds(run) = SeqRange(run.chunk_ids)
             /\ run.vs = ManifestIds(run)
             /\ run.ti = ManifestIds(run)

\* two runs in a row for the same document with the same content and checksum
SameDocTwice ==
    /\ Len(text_runs) = 2
    /\ text_runs[1].doc_id = text_runs[2].doc_id
    /\ text_runs[1].content = text_runs[2].content
    /\ text_runs[1].checksum = text_runs[2].checksum

ExceptTsUpdated(m) == [m EXCEPT !.ts_updated = None]

\* C9: processing the same document twice (same id, content, checksum) leaves
\* the chunk-id sets of both stores as after the first run, issues no delete,
\* and leaves the manifest unchanged except possibly ts_updated.
C9_ReingestIsIdempotent ==
    (SameDocTwice /\ text_runs[1].outcome = "ok" /\ text_runs[2].outcome = "ok") =>
        /\ text_runs[2].vs = text_runs[1].vs
        /\ text_runs[2].ti = text_runs[1].ti
        /\ text_runs[2].deleted = {}
        /\ ExceptTsUpdated(The(text_runs[2].manifest)) = ExceptTsUpdated(The(text_runs[1].manifest))

\* C10: a run that failed in the upsert step after the vector store was
\* written and before or while the text index was written, followed by a
\* successful re-run for the same document, ends with both stores holding
\* exactly the new chunk ids and the manifest listing them.
C10_RetryReconverges ==
    (SameDocTwice /\ text_runs[1].outcome = "text_upsert_failed"
                  /\ text_runs[2].outcome = "ok") =>
        /\ text_runs[2].vs = SeqRange(text_runs[2].chunk_ids)
        /\ text_runs[2].ti = SeqRange(text_runs[2].chunk_ids)
        /\ ManifestIds(text_runs[2]) = SeqRange(text_runs[2].chunk_ids)

(***************************************************************************)
(* Claims about the GraphSink (SpecGraph, SpecGraphConc).                  *)
(***************************************************************************)
\* t_valid_start <= t < t_valid_end
Covers(props, t) == props.start <= t /\ t < props.end

\* two windows share an instant (then the later of the two starts is one)
WindowsOverlap(a, b) ==
    \E t \in {a.start, b.start} : Covers(a, t) /\ Covers(b, t)

NonOverlap(store) ==
    \A t \in {e.props.start : e \in GetEdges(store)} :
        Cardinality({e \in GetEdges(store) : Covers(e.props, t)}) <= 1

\* C2: after any sequence of edge inserts, for every instant t at most one
\* stored edge of the relation has t_valid_start <= t < t_valid_end.
C2_AtMostOneValidEdge == NonOverlap(edges)

Creates(ops) == {j \in DOMAIN ops : ops[j].op = "create"}

\* C6: when the new edge N overlaps an existing edge E of its relation and
\* N.confidence > E.confidence, E is truncated to [E.start, N.start) and N is
\* inserted exactly once with its window unchanged, whatever else overlaps N.
C6_HigherConfidenceTruncatesOld ==
    glast.valid =>
        \A k \in DOMAIN glast.sorted :
            LET E == glast.sorted[k]
                N == glast.n
            IN (WindowsOverlap(N, E.props) /\ N.conf > E.props.conf) =>
                 /\ glast.after[E.id] = Some([E.props EXCEPT !.end = N.start])
                 /\ Cardinality(Creates(glast.ops)) = 1
                 /\ \A j \in Creates(glast.ops) : glast.ops[j].props = N
                 /\ \E id \in EdgeIds : glast.after[id] = Some(N)

\* C7: when the new edge N overlaps the existing edge E of its relation and
\* N.confidence < E.confidence: if N.start < E.start, N is inserted with its
\* end clipped to E.start; else if N.end > E.end, N is inserted with its start
\* clipped to E.end under a distinct edge id; else N is dropped; E is left
\* unchanged in all three cases.  (Stated for one existing edge.)
C7_LowerConfidenceClipsNew ==
    (glast.valid /\ Len(glast.sorted) = 1) =>
        LET E == glast.sorted[1]
            N == glast.n
        IN (WindowsOverlap(N, E.props) /\ N.conf < E.props.conf) =>
             /\ glast.after[E.id] = Some(E.props)
             /\ IF N.start < E.props.start
                THEN \E id \in EdgeIds : glast.after[id] = Some([N EXCEPT !.end = E.props.start])
                ELSE IF N.end > E.props.end
                     THEN \E id \in EdgeIds \ {E.id} :
                            glast.after[id] = Some([N EXCEPT !.start = E.props.end])
                     ELSE glast.ops = <<>>

\* both concurrent calls of the round have finished
BothDone == ground.active /\ \A p \in Tasks : gtask[p].pc = "done"

SerialOutcomes(base, first, second) ==
    UNION {RunSet(s1, second) : s1 \in RunSet(base, first)}

SerialResults ==
    LET n1 == The(ground.n["t1"])
        n2 == The(ground.n["t2"])
    IN SerialOutcomes(ground.base, n1, n2) \cup SerialOutcomes(ground.base, n2, n1)

\* C8: when two process_document calls insert edges of the same relation
\* concurrently, the stored edges afterwards are those of the two inserts run
\* in some serial order, and the non-overlap invariant holds.
C8_ConcurrentInsertsSerialize ==
    BothDone => (edges \in SerialResults /\ NonOverlap(edges))

(***************************************************************************)
(* Claims about MCPHost and MCPIngestionWorker (SpecHost, SpecWorker).     *)
(***************************************************************************)
\* the DLQ records of the current run_ingestion call
RunDlq ==
    {k \in DOMAIN queues.ingestion_dlq : queues.ingestion_dlq[k].run = worker.run}

AllTimedOut == \A i \in DOMAIN worker.results : worker.results[i] = "timeout"

C4_PermissionDeniedIsFatal ==
    (worker.results # <<>> /\ worker.results[1] = "permission_denied") =>
        /\ Len(worker.results) = 1
        /\ RunDlq = {}
        /\ worker.pc \in {"raised", "returned"} => worker.raised = Some("permission_denied")

\* C5: a request reaches the server transport only if the calling tenant has
\* the id in its allow-list and, when the user has an allow-list of their own,
\* the id is in it too.
C5_TransportOnlyWhenPermitted ==
    transport_log # None =>
        LET req == The(transport_log)
        IN /\ req.tenant # None
           /\ req.id \in TenantTools(host_cfg, The(req.tenant))
           /\ (req.user # None /\ UserTools(host_cfg, The(req.tenant), The(req.user)) # {}) =>
                 req.id \in UserTools(host_cfg, The(req.tenant), The(req.user))

(***************************************************************************)
(* Claims about HybridRetriever._reciprocal_rank_fusion (SpecRrf).         *)
(***************************************************************************)
\* the ids of the input lists
InputIds == UNION {SeqRange(rrf.result_lists[i].results) : i \in DOMAIN rrf.result_lists}

\* r's zero-based rank in a list that holds it
RankIn(results, r) == (CHOOSE pos \in DOMAIN results : results[pos] = r) - 1

\* w_i / (rank_i(r) + k), or 0 for a list without r
Contribution(result_list, r, k) ==
    IF r \in SeqRange(result_list.results)
    THEN result_list.weight * (Unit(k) \div (RankIn(result_list.results, r) + k))
    ELSE 0

RECURSIVE SumContributions(_, _, _, _)
SumContributions(result_lists, r, k, i) ==
    IF i > Len(result_lists) THEN 0
    ELSE Contribution(result_lists[i], r, k) + SumContributions(result_lists, r, k, i + 1)

\* C11: the fused score of each id r is the sum over the lists of
\* w_i / (rank_i(r) + k), a list without r contributing 0, and every id of
\* some input list appears exactly once in the output (and no other id does).
C11_FusedScoreIsWeightedSum ==
    rrf.called =>
        /\ \A r \in InputIds :
             /\ Cardinality({j \in DOMAIN rrf.out : rrf.out[j].id = r}) = 1
             /\ \A j \in DOMAIN rrf.out :
                  rrf.out[j].id = r =>
                     rrf.out[j].score = SumContributions(rrf.result_lists, r, rrf.k, 1)
        /\ \A j \in DOMAIN rrf.out : rrf.out[j].id \in InputIds

\* a fusion of two lists that share an id at different ranks, one id being
\* in one list only
C11_Witness ==
    /\ rrf.called
    /\ Len(rrf.result_lists) = 2
    /\ \E r \in InputIds :
         /\ r \in SeqRange(rrf.result_lists[1].results)
         /\ r \in SeqRange(rrf.result_lists[2].results)
         /\ RankIn(rrf.result_lists[1].results, r) # RankIn(rrf.result_lists[2].results, r)
    /\ \E r \in InputIds : r \notin SeqRange(rrf.result_lists[2].results)
    /\ Len(rrf.out) = 3

\* the rank at which r is first seen: its rank in the first list that holds it
FirstSeenRank(r) ==
    LET first == CHOOSE i \in DOMAIN rrf.result_lists :
                    /\ r \in SeqRange(rrf.result_lists[i].results)
                    /\ \A h \in 1..(i - 1) : r \notin SeqRange(rrf.result_lists[h].results)
    IN RankIn(rrf.result_lists[first].results, r)

\* position of an id in lexical order
IdPos(r) == CHOOSE pos \in DOMAIN IdOrder : IdOrder[pos] = r

\* C12: the output is ordered by descending fused score; ids of equal fused
\* score are ordered by lower first-seen rank and then by lexical id.
C12_OrderAndTieBreak ==
    rrf.called =>
        \A i, j \in DOMAIN rrf.out :
            i < j =>
               LET a == rrf.out[i]
                   b == rrf.out[j]
               IN /\ a.score >= b.score
                  /\ a.score = b.score =>
                       \/ FirstSeenRank(a.id) < FirstSeenRank(b.id)
                       \/ /\ FirstSeenRank(a.id) = FirstSeenRank(b.id)
                          /\ IdPos(a.id) < IdPos(b.id)

(***************************************************************************)
(* Claims about the checkpoints of MCPIngestionWorker (SpecWorker).        *)
(***************************************************************************)
\* the step is a run_ingestion call returning a response that carries a cursor
ReturnsCursor ==
    /\ worker.pc = "attempt"
    /\ worker'.pc = "returned"
    /\ worker'.cursor # None

EventDlq(event) ==
    {k \in DOMAIN queues.ingestion_dlq : queues.ingestion_dlq[k].event = event}

\* C14: when normalizing or enqueueing an event fails, a DLQ record for that
\* event is on ingestion_dlq, the last_event_id checkpoint is not advanced to
\* the event, and the loop goes on to the later events of the stream.
C14_FailedEventIsDlqdAndSkipped ==
    \A k \in DOMAIN stream.log :
        LET e == stream.log[k]
        IN e.tried # "enqueued" =>
             /\ EventDlq(e.event) # {}
             /\ e.last_event_id # Some(e.event.id)
             /\ ~e.left_loop

(***************************************************************************)
(* Claims about the audit log of MCPHost (SpecHost).                       *)
(***************************************************************************)
\* the last direct call was an invoke_tool that passed lookup and permissions
InvokePassedChecks ==
    /\ host_last # None
    /\ The(host_last).req.kind = "invoke_tool"
    /\ The(host_last).outcome \in Endings

OutcomeEvents == {"tool_success", "tool_error"}

\* C15: an invoke_tool call that passes lookup and permission checks emits a
\* start record with a fresh invocation_id and then, however the call ends
\* (result, error or timeout, cancellation), exactly one outcome record with
\* the same id: tool_success after a result, tool_error otherwise; a call that
\* does not pass emits no outcome record.
C15_OneOutcomePerInvocation ==
    host_last # None =>
        LET outcomes == {j \in DOMAIN audit.log : audit.log[j].event \in OutcomeEvents}
        IN IF InvokePassedChecks
           THEN /\ Len(audit.log) = 2
                /\ audit.log[1].event = "tool_invocation"
                /\ audit.log[1].invocation_id = audit.next - 1
                /\ outcomes = {2}
                /\ audit.log[2].invocation_id = audit.log[1].invocation_id
                /\ audit.log[2].event = IF The(host_last).outcome = "ok"
                                        THEN "tool_success" ELSE "tool_error"
           ELSE outcomes = {}

\* the request has an outcome: nobody awaits it any more
Completed(id) == tp.state[id] \in {"result", "error", "timeout", "cancelled", "closed"}

\* close() has returned and nothing was written or completed since
NothingAfterClose ==
    /\ tp.pending = {}
    /\ tp.request_id = The(tp.at_return).request_id
    /\ tp.wire = The(tp.at_return).wire
    /\ tp.state = The(tp.at_return).state

C17_CancelledEntryRemoved ==
    \A id \in RequestIds : tp.state[id] = "cancelled" => id \notin tp.pending

\* the evidence score as the claim computes it, in units of 1/max_length
SumOfTextLengths(context) == TotalLength(context, 1)
EvidenceScoreClaimed(context) ==
    IF SumOfTextLengths(context) < max_length THEN SumOfTextLengths(context) ELSE max_length

\* the call returned the refusal and the language model was not called
RefusedWithoutModel ==
    /\ gen.pc = "returned"
    /\ The(gen.result).answer = Refusal
    /\ The(gen.result).citations = <<>>
    /\ ~The(gen.result).has_sufficient_evidence
    /\ gen.llm_calls = 0

\* the refusal is given exactly when the claimed score is below the threshold,
\* and every other result says has_sufficient_evidence
RefusalExactlyBelowThreshold ==
    /\ gen.pc = "returned" =>
          /\ RefusedWithoutModel
                <=> EvidenceScoreClaimed(gen.context) < gen.min_evidence_score
          /\ ~RefusedWithoutModel => The(gen.result).has_sufficient_evidence
          /\ The(gen.result).evidence_score = EvidenceScoreClaimed(gen.context)
    /\ gen.llm_calls > 0 => ~(EvidenceScoreClaimed(gen.context) < gen.min_evidence_score)

\* C18 (as stated): generate_with_citations refuses, without calling the
\* language model, exactly when min(1, sum of text lengths / 10000) is below
\* min_evidence_score; an empty context scores 0 and is refused; every other
\* result has has_sufficient_evidence = true.
C18_RefusalAndEmptyContext ==
    /\ RefusalExactlyBelowThreshold
    /\ (gen.pc # "called" /\ gen.context = <<>>) =>
          /\ EvidenceScoreClaimed(gen.context) = 0
          /\ RefusedWithoutModel

\* C18 (amended): as stated, except that an empty context is refused when
\* min_evidence_score is positive.
C18_RefusalAndEmptyContextPositive ==
    /\ RefusalExactlyBelowThreshold
    /\ (gen.pc # "called" /\ gen.context = <<>> /\ gen.min_evidence_score > 0) =>
          /\ EvidenceScoreClaimed(gen.context) = 0
          /\ RefusedWithoutModel

\* an empty context was refused under a positive threshold
C18_Witness ==
    /\ RefusedWithoutModel
    /\ gen.context = <<>>
    /\ gen.min_evidence_score > 0

NoDuplicates(s) == \A i, j \in 1..Len(s) : s[i] = s[j] => i = j

\* C19: the citations of a response are at most as many as the context items;
\* each belongs to a marker [i] of the response with 1 <= i <= len(context)
\* and is the citation of context[i-1]; no i is cited twice; markers outside
\* the range give no citation.
C19_CitationsWithinContext ==
    (gen.pc = "returned" /\ The(gen.result).has_sufficient_evidence) =>
        LET r == The(gen.result)
        IN /\ Len(r.citations) <= Len(gen.context)
           /\ Len(r.cited) = Len(r.citations)
           /\ \A j \in 1..Len(r.cited) :
                 /\ r.cited[j] \in Elements(FindAll(gen.response))
                 /\ 1 <= r.cited[j] /\ r.cited[j] <= Len(gen.context)
                 /\ r.citations[j] = Citation(gen.context[r.cited[j]])
           /\ NoDuplicates(r.cited)

\* a response that repeats a marker in range, or has one out of range next to
\* one in range, gave a citation
C19_Witness ==
    /\ gen.pc = "returned"
    /\ The(gen.result).citations # <<>>
    /\ \/ ~NoDuplicates(FindAll(gen.response))
       \/ \E i \in 1..Len(gen.response) :
             gen.response[i] = 0 \/ gen.response[i] > Len(gen.context)

RECURSIVE FirstAppearances(_, _)
\* the markers of a list, each at its first position only
FirstAppearances(markers, seen) ==
    IF markers = <<>> THEN <<>>
    ELSE IF Head(markers) \in seen THEN FirstAppearances(Tail(markers), seen)
    ELSE <<Head(markers)>> \o FirstAppearances(Tail(markers), seen \cup {Head(markers)})

\* C20: the citations are listed in the order in which their markers first
\* appear in the answer.
C20_CitationsInOrderOfAppearance ==
    (gen.pc = "returned" /\ The(gen.result).has_sufficient_evidence) =>
        The(gen.result).cited =
            SelectSeq(FirstAppearances(FindAll(gen.response), {}),
                      LAMBDA marker : 1 <= marker /\ marker <= Len(gen.context))

DoneFrames(frames) == {i \in 1..Len(frames) : frames[i].done}

\* C21: a generate_stream run that is over delivered exactly one frame with
\* done = true, as its last frame; a successful run delivered the chunks of
\* the language model unchanged and then the citations frame.
C21_ExactlyOneDoneFrameLast ==
    gs.pc = "ended" =>
        /\ DoneFrames(gs.frames) = {Len(gs.frames)}
        /\ gs.frames # <<>>
        /\ gs.exit = "success" =>
              /\ Len(gs.frames) = Len(gs.llm_chunks) + 1
              /\ \A i \in 1..Len(gs.llm_chunks) :
                    gs.frames[i] = AnswerFrame(gs.llm_chunks[i], FALSE)
              /\ gs.frames[Len(gs.frames)].type = "citations"

\* the ids and final scores of a result list, in order
Ranking(result) ==
    [i \in DOMAIN result |-> [id |-> result[i].id, rerank_score |-> result[i].rerank_score]]

\* C22: each rerank call returns at most its own top_k candidates, all from
\* its own candidate list, in descending order of final score, and the same
\* ranking it would return without a cache.
C22_CachedEqualsUncached ==
    rr.last # None =>
        LET call == The(rr.last)
            result == call.result
        IN /\ Len(result) <= call.top_k
           /\ \A i \in DOMAIN result :
                 \E j \in DOMAIN call.candidates : call.candidates[j].id = result[i].id
           /\ \A i, j \in DOMAIN result : i < j => result[i].rerank_score >= result[j].rerank_score
           /\ Ranking(result)
                = Ranking(Prefix(Reranked(rr.base, call.candidates, call.features), call.top_k))

\* how many of a reranked list exceed the threshold (final scores are in
\* twentieths, the threshold in tenths)
ExceedingThreshold(reranked, threshold) ==
    Cardinality({i \in DOMAIN reranked : reranked[i].rerank_score > 2 * threshold})

MemberIds(s) == {s[i].id : i \in DOMAIN s}

\* C23: when fewer than top_k reranked candidates exceed quality_threshold,
\* the list handed to generation has the members of the reranker's top_k
\* output: nothing removed, nothing padded.
C23_ShortfallStillHandedOn ==
    (/\ orch.pc = "generated"
     /\ ExceedingThreshold(orch.reranker_out, orch.threshold) < orch.final_k) =>
        /\ MemberIds(orch.handed) = MemberIds(orch.reranker_out)
        /\ Len(orch.handed) = Len(orch.reranker_out)

\* C24: normalize(normalize(x)) equals normalize(x) in id, content, acl,
\* metadata, ts_source and checksum.
C24_NormalizeIdempotent ==
    norm.pc = "done" =>
        LET once == The(norm.once)
            twice == The(norm.twice)
        IN /\ twice.id = once.id
           /\ twice.content = once.content
           /\ twice.acl = once.acl
           /\ twice.metadata = once.metadata
           /\ twice.ts_source = once.ts_source
           /\ twice.checksum = once.checksum

RECURSIVE LargestParagraphTokens(_)
LargestParagraphTokens(paragraphs) ==
    IF paragraphs = <<>> THEN 0
    ELSE LET rest == LargestParagraphTokens(Tail(paragraphs))
             first == Len(Split(Head(paragraphs)))
         IN IF first > rest THEN first ELSE rest

\* C25: every chunk of chunk_document has
\* 1 <= tokens <= chunk_size + largest_paragraph_tokens.
C25_ChunkTokensBounded ==
    ck.pc = "done" =>
        \A i \in DOMAIN ck.chunks :
            /\ 1 <= ck.chunks[i].tokens
            /\ ck.chunks[i].tokens <= ck.cfg.chunk_size + LargestParagraphTokens(ck.content)

\* C26: during a batch ingest at most max_concurrent single-source ingests
\* are in flight, on every batch entry point.
C26_AtMostMaxConcurrentInFlight ==
    Cardinality(InFlight(batch)) <= batch.max_concurrent

(***************************************************************************)
(* A further claim about the GraphSink (SpecGraph).                        *)
(***************************************************************************)
\* C30: after any sequence of edge inserts every edge that an insert created
\* or updated has a non-empty validity window, t_valid_start < t_valid_end,
\* and an insert creates the new edge at most once.
C30_WindowsNonEmptyCreatedOnce ==
    glast.valid =>
        /\ \A k \in DOMAIN glast.ops : glast.ops[k].props.start < glast.ops[k].props.end
        /\ Cardinality(Creates(glast.ops)) <= 1

(***************************************************************************)
(* A further claim about the StdioTransport (SpecTransport).               *)
(***************************************************************************)
\* the replies the read loop reads in a step
RepliesRead == tp.wire \ tp'.wire

\* the request ids an invoke registers in a step
Registered == {id \in RequestIds : tp.state[id] = "unused" /\ tp'.state[id] # "unused"}

\* C29: with concurrent invokes and replies in any order, an invoke completes
\* with the result or error of the reply that carries its own request id,
\* request ids are never reused, and a reply whose id is no longer pending
\* is discarded: no pending request and no outcome changes.
C29_RepliesKeyedById ==
    [][/\ \A id \in RequestIds :
            (tp.state[id] = "waiting" /\ tp'.state[id] \in {"result", "error"})
                => RepliesRead = {id}
       /\ \A id \in Registered :
            /\ id > tp.request_id
            /\ id = tp'.request_id
            /\ id \notin tp.pending
       /\ tp'.request_id >= tp.request_id
       /\ \A id \in RepliesRead :
            /\ \A other \in RequestIds \ {id} :
                 /\ tp'.state[other] = tp.state[other]
                 /\ (other \in tp'.pending) = (other \in tp.pending)
            /\ id \notin tp.pending =>
                 (tp'.state = tp.state /\ tp'.pending = tp.pending)]_vars

\* three invokes are in flight together; the first timed out and its late
\* reply was read and discarded, the third was answered before the second,
\* which is still waiting
C29_Witness ==
    /\ tp.state[1] = "timeout" /\ 1 \notin tp.wire
    /\ tp.state[3] = "result"
    /\ tp.state[2] = "waiting" /\ 2 \in tp.pending /\ 2 \in tp.wire

(***************************************************************************)
(* A further claim about the TextSink (SpecText).                          *)
(***************************************************************************)
\* C28: a process_document run deletes the stale chunks, upserts the new
\* chunks into both stores and writes the manifest, in this order; so when a
\* run has stopped, completed or failed, the manifest it wrote lists no chunk
\* id that is missing from the vector store or from the text index.
C28_ManifestListsOnlyUpserted ==
    \A k \in DOMAIN text_runs :
        LET run == text_runs[k]
        IN ManifestIds(run) \subseteq (run.vs \cap run.ti)

(***************************************************************************)
(* Claims about the InMemoryQueueClient (SpecQueue).                       *)
(***************************************************************************)
\* the tasks that handed message pos of the topic to a callback
Deliveries(topic, pos) ==
    {i \in DOMAIN qc.tasks : /\ qc.tasks[i].topic = topic
                             /\ qc.tasks[i].pos = pos
                             /\ qc.tasks[i].state # "created"}

\* C27: the queue delivers at least once: every message produced to a topic
\* is eventually handed to a consumer of that topic, also when it was produced
\* before the consumer registered, and a message whose handler raised is
\* handed over again.
C27_DeliveredAtLeastOnce ==
    \A topic \in Topics : \A pos \in 1..MaxMessages :
        /\ (Len(queues[topic]) >= pos) ~> (Deliveries(topic, pos) # {})
        /\ \A i \in 1..(MaxMessages * MaxConsumers) :
             (i \in Deliveries(topic, pos) /\ qc.tasks[i].state = "raised")
                ~> (\E j \in Deliveries(topic, pos) : j > i)
====
